---- MODULE Spec2Model ----
(***************************************************************************)
(* Bot client of ts-poe: the retry loop of streamRequestBase around the    *)
(* event state machine of BotContext.performQueryRequest, with the         *)
(* back-channel report_error POSTs the state machine makes.                *)
(***************************************************************************)
EXTENDS Integers, Sequences, FiniteSets, TLC

\* ------------------------------------------------------------------ bounds
\* largest numTries option the caller passes
MaxTries == 3
\* most events one response stream delivers before it closes or breaks
MaxEvents == 3

\* ------------------------------------------------------- program constants
\* numTries = 2 in the options destructuring of streamRequestBase
DefaultNumTries == 2
\* the numTries option left out by the caller
Undefined == -1

\* --------------------------------------------------------------- JS values
\* A JSON / JS value: its typeof tag and its printed form.
JVal(t, v) == [t |-> t, v |-> v]
JAbsent == JVal("undefined", "")
JNull == JVal("null", "null")
JTrue == JVal("boolean", "true")
JFalse == JVal("boolean", "false")
JNum(n) == JVal("number", n)
JStr(s) == JVal("string", s)

\* x ?? d
Coalesce(x, d) == IF x.t \in {"undefined", "null"} THEN d ELSE x

\* JS truthiness of a value
Truthy(x) == ~(x \in {JAbsent, JNull, JFalse, JNum("0"), JStr("")})

\* ------------------------------------------------------------- wire events
\* sse.data as the text JSON.parse sees: "invalid" is no JSON, "scalar" parses
\* to a non-object (or null), "object" parses to an object with these fields.
Data(syntax, text, allowRetry, linkify, suggestedReplies, contentType) ==
    [syntax |-> syntax, text |-> text, allow_retry |-> allowRetry, linkify |-> linkify,
     suggested_replies |-> suggestedReplies, content_type |-> contentType]

DataInvalid == Data("invalid", JAbsent, JAbsent, JAbsent, JAbsent, JAbsent)
DataScalar == Data("scalar", JAbsent, JAbsent, JAbsent, JAbsent, JAbsent)
DataEmptyObject == Data("object", JAbsent, JAbsent, JAbsent, JAbsent, JAbsent)
DataText(t) == Data("object", t, JAbsent, JAbsent, JAbsent, JAbsent)
DataError(ar) == Data("object", JStr("A"), ar, JAbsent, JAbsent, JAbsent)
DataMeta(l, sr, ct) == Data("object", JAbsent, JAbsent, l, sr, ct)

Texts == {"A", "B"}

Malformed == {DataInvalid, DataScalar}

TextDatas == {DataText(JStr(t)) : t \in Texts} \cup {DataEmptyObject} \cup Malformed
SuggestedDatas == {DataText(JStr("A")), DataText(JNum("0"))} \cup Malformed
JsonDatas == {DataEmptyObject, DataInvalid}
MetaDatas ==
    {DataEmptyObject,
     DataMeta(JTrue, JFalse, JStr("text/plain")),
     DataMeta(JStr("yes"), JAbsent, JAbsent),
     DataMeta(JNull, JNum("0"), JAbsent),
     DataMeta(JAbsent, JAbsent, JNum("0"))} \cup Malformed
ErrorDatas == {DataError(ar) : ar \in {JAbsent, JTrue, JFalse, JNull}} \cup Malformed

SSE(event, data) == [event |-> event, data |-> data]
NoEvent == SSE("", DataEmptyObject)

\* -------------------------------------------------------------- exceptions
Err(name, message, origin) == [name |-> name, message |-> message, origin |-> origin]
NoErr == Err("", "", "")
BotError(message) == Err("BotError", message, "client")
BotErrorNoRetry(message) == Err("BotErrorNoRetry", message, "client")
\* a rejected session.post or a broken response stream; message is the axios code
AxiosError(code, origin) == Err("AxiosError", code, origin)
SyntaxError == Err("SyntaxError", "JSON.parse", "client")
ContentTypeError == Err("Error", "Expected response header Content-Type", "client")

\* what a POST or a read of the response stream can end in
NetFailures == {"ECONNABORTED", "ERR_BAD_RESPONSE"}
NetOutcomes == {"ok"} \cup NetFailures

isBotErrorNoRetry_Never(e) == FALSE

isBotErrorNoRetry(e) == e.name = "BotErrorNoRetry"

isError(e) == e.name \in {"BotError", "BotErrorNoRetry", "AxiosError", "SyntaxError", "Error"}

isAxiosError(e) == e.name = "AxiosError"

\* ------------------------------------------------------- back-channel POST
\* One reportError call: the report_error POST with its message and how the
\* POST ended.
Report(message, context, result) == [message |-> message, context |-> context, result |-> result]

\* reportError awaits session.post without a try: a rejected POST is thrown on.
ReportThrown(result) ==
    IF result = "ok" THEN NoErr ELSE AxiosError(result, "report_error")

\* ------------------------------------------------------------ JSON helpers
\* loadJsonDict(data, context): net[k] is how the k-th report POST ends.
loadJsonDict(data, context, net) ==
    IF data.syntax = "invalid"
    THEN \* JSON.parse throws; catch: report, then BotErrorNoRetry
         [dict |-> FALSE,
          reports |-> <<Report("Invalid JSON in event", context, net[1])>>,
          thrown |-> IF net[1] = "ok" THEN BotErrorNoRetry("Invalid JSON in event")
                     ELSE ReportThrown(net[1])]
    ELSE IF data.syntax = "scalar"
    THEN \* report, throw BotError (or the report's error) inside the try; the
         \* catch of the same try takes it: report again, then BotErrorNoRetry
         [dict |-> FALSE,
          reports |-> <<Report("Expected JSON dict in event", context, net[1]),
                        Report("Invalid JSON in event", context, net[2])>>,
          thrown |-> IF net[2] = "ok" THEN BotErrorNoRetry("Invalid JSON in event")
                     ELSE ReportThrown(net[2])]
    ELSE [dict |-> TRUE, reports |-> <<>>, thrown |-> NoErr]

\* getSingleJsonField(data, context, messageId, field = 'text')
getSingleJsonField(data, context, net) ==
    LET d == loadJsonDict(data, context, net) IN
    IF ~d.dict
    THEN [ok |-> FALSE, text |-> "", reports |-> d.reports, thrown |-> d.thrown]
    ELSE IF data.text.t # "string"
    THEN [ok |-> FALSE, text |-> "",
          reports |-> <<Report("Expected string in 'text' field for event", context, net[1])>>,
          thrown |-> IF net[1] = "ok" THEN BotErrorNoRetry("Expected string in event")
                     ELSE ReportThrown(net[1])]
    ELSE [ok |-> TRUE, text |-> data.text.v, reports |-> <<>>, thrown |-> NoErr]

\* ---------------------------------------------------------------- messages
\* A PartialResponse (type = the event that made it) or MetaResponse.
Message(type, text, isSuggestedReply, isReplaceResponse, linkify, suggestedReplies, contentType) ==
    [type |-> type, text |-> text, isSuggestedReply |-> isSuggestedReply,
     isReplaceResponse |-> isReplaceResponse, linkify |-> linkify,
     suggestedReplies |-> suggestedReplies, contentType |-> contentType]

PartialResponse(type, text, isSuggestedReply, isReplaceResponse) ==
    Message(type, text, isSuggestedReply, isReplaceResponse, JAbsent, JAbsent, JAbsent)

MetaResponse(linkify, suggestedReplies, contentType) ==
    Message("meta", "", FALSE, FALSE, linkify, suggestedReplies, contentType)

\* ------------------------------------------- performQueryRequest, per event
\* What one iteration of the for-await loop does: the locals it leaves, the
\* message it yields (at most one), the reports it POSTs, the exception it
\* throws (NoErr: none) and whether it returns from the generator.
Result(ch, er, yielded, reports, thrown, returned) ==
    [chunks |-> ch, errorReported |-> er, yielded |-> yielded, reports |-> reports,
     thrown |-> thrown, returned |-> returned]

Continue(ch, er) == Result(ch, er, <<>>, <<>>, NoErr, FALSE)

Throw(ch, er, reports, thrown) == Result(ch, er, <<>>, reports, thrown, FALSE)

\* One report followed by `errorReported = true; continue` (or by nothing):
\* the assignment is reached only when the POST resolved.
ReportAndContinue(ch, er, message, context, result) ==
    Result(ch, IF result = "ok" THEN TRUE ELSE er, <<>>,
           <<Report(message, context, result)>>, ReportThrown(result), FALSE)

\* !chunks.length && !errorReported && !tools
NoTextCondition(ch, er, tl) == Len(ch) = 0 /\ ~er /\ ~Truthy(tl)

\* sse.event === 'done'
onDone(ch, er, tl, net) ==
    IF NoTextCondition(ch, er, tl)
    THEN Result(ch, er, <<>>, <<Report("Bot returned no text in response", "done", net[1])>>,
                ReportThrown(net[1]), net[1] = "ok")
    ELSE Result(ch, er, <<>>, <<>>, NoErr, TRUE)

\* sse.event === 'text'
onText(ch, er, data, net) ==
    LET f == getSingleJsonField(data, "text", net) IN
    IF ~f.ok THEN Throw(ch, er, f.reports, f.thrown)
    ELSE Result(Append(ch, f.text), er,
                <<PartialResponse("text", f.text, FALSE, FALSE)>>, <<>>, NoErr, FALSE)

ReplaceChunks_Append(ch, text) == Append(ch, text)

\* chunks.splice(0, chunks.length); chunks.push(text)
ReplaceChunks(ch, text) == Append(SubSeq(ch, Len(ch) + 1, Len(ch)), text)

\* sse.event === 'replace_response'
onReplaceResponse(ch, er, data, net) ==
    LET f == getSingleJsonField(data, "replace_response", net) IN
    IF ~f.ok THEN Throw(ch, er, f.reports, f.thrown)
    ELSE Result(ReplaceChunks(ch, f.text), er,
                <<PartialResponse("replace_response", f.text, FALSE, TRUE)>>, <<>>, NoErr, FALSE)

\* sse.event === 'suggested_reply'
onSuggestedReply(ch, er, data, net) ==
    LET f == getSingleJsonField(data, "suggested_reply", net) IN
    IF ~f.ok THEN Throw(ch, er, f.reports, f.thrown)
    ELSE Result(ch, er, <<PartialResponse("suggested_reply", f.text, TRUE, FALSE)>>,
                <<>>, NoErr, FALSE)

onJson_Silent(ch, er, data) ==
    IF data.syntax = "invalid" THEN Throw(ch, er, <<>>, SyntaxError) ELSE Continue(ch, er)

\* sse.event === 'json': JSON.parse(sse.data) inside the yielded object
onJson(ch, er, data) ==
    IF data.syntax = "invalid" THEN Throw(ch, er, <<>>, SyntaxError)
    ELSE Result(ch, er, <<PartialResponse("json", "", FALSE, FALSE)>>, <<>>, NoErr, FALSE)

MetaHonoured_Any(count) == TRUE

\* if (eventCount !== 1) continue, read after eventCount += 1
MetaHonoured(count) == count = 1

\* sse.event === 'meta'; count is eventCount after this event was counted
onMeta(ch, er, count, data, net) ==
    IF ~MetaHonoured(count) THEN Continue(ch, er)
    ELSE LET d == loadJsonDict(data, "meta", net)
             linkify == Coalesce(data.linkify, JFalse)
             sendSuggestedReplies == Coalesce(data.suggested_replies, JFalse)
             contentType == Coalesce(data.content_type, JStr("text/markdown"))
         IN IF ~d.dict THEN Throw(ch, er, d.reports, d.thrown)
            ELSE IF linkify.t # "boolean"
            THEN ReportAndContinue(ch, er, "Invalid linkify value in 'meta' event", "meta", net[1])
            ELSE IF sendSuggestedReplies.t # "boolean"
            THEN ReportAndContinue(ch, er, "Invalid suggested_replies value in 'meta' event",
                                   "meta", net[1])
            ELSE IF contentType.t # "string"
            THEN ReportAndContinue(ch, er, "Invalid content_type value in 'meta' event",
                                   "meta", net[1])
            ELSE Result(ch, er, <<MetaResponse(linkify, sendSuggestedReplies, contentType)>>,
                        <<>>, NoErr, FALSE)

ErrorEventException_Swapped(allowRetry) ==
    IF Truthy(Coalesce(allowRetry, JTrue))
    THEN BotErrorNoRetry("error event") ELSE BotError("error event")

\* if (data['allow_retry'] ?? true) throw new BotError(sse.data)
\* else throw new BotErrorNoRetry(sse.data)
ErrorEventException(allowRetry) ==
    IF Truthy(Coalesce(allowRetry, JTrue))
    THEN BotError("error event") ELSE BotErrorNoRetry("error event")

\* sse.event === 'error'
onError(ch, er, data, net) ==
    LET d == loadJsonDict(data, "error", net) IN
    IF ~d.dict THEN Throw(ch, er, d.reports, d.thrown)
    ELSE Throw(ch, er, <<>>, ErrorEventException(data.allow_retry))

\* sse.event === 'ping'
onPing(ch, er) == Continue(ch, er)

\* any other event name
onUnknown(ch, er, net) == ReportAndContinue(ch, er, "Unknown event type", "unknown", net[1])

\* after the loop: the stream closed without done
onStreamEnd(ch, er, net) ==
    Result(ch, er, <<>>,
           <<Report("Bot exited without sending 'done' event", "end", net[1])>>,
           ReportThrown(net[1]), net[1] = "ok")

\* ------------------------------------------------------------------- state
VARIABLES
    optNumTries,    \* options.numTries as the caller passed it (Undefined: left out)
    tools,          \* options.tools as a JS value (undefined, [] or a non-empty list)
    pc,             \* streamRequestBase: "loop", "stream", "sleep", "returned", "raised"
    i,              \* the loop counter of streamRequestBase
    gotResponse,    \* streamRequestBase.gotResponse
    eventCount,     \* performQueryRequest.eventCount
    chunks,         \* performQueryRequest.chunks
    errorReported,  \* performQueryRequest.errorReported
    posts,          \* query POSTs made by this call
    sleeps,         \* retry sleeps started by this call
    attemptYields,  \* messages the current attempt has yielded
    sawDone,        \* the current attempt has processed a done event
    step,           \* what the last step did: event, yields, reports, exception
    raised          \* the exception the call ended with (NoErr: none)

clientVars == <<optNumTries, tools, pc, i, gotResponse, eventCount, chunks, errorReported,
                posts, sleeps, attemptYields, sawDone, step, raised>>

\* One attempt seen from both ends (specification SpecStream).
VARIABLES
    wire,           \* the events the response stream of the attempt carries, in wire order
    delivered,      \* the messages performQueryRequest has yielded, in the order yielded
    finalChunks     \* getFinalResponse.chunks of a caller that takes these messages

streamVars == <<wire, delivered, finalChunks>>

StreamIdle == wire = <<>> /\ delivered = <<>> /\ finalChunks = <<>>

\* streamRequest with tools and toolExecutables (specification SpecTools).
VARIABLES
    names,              \* function.name the bot gives the tool call of each index
    tpc,                \* streamRequest: "round1", "exec", "round2", "returned", "raised"
    arrived,            \* the messages round 1 has yielded to getToolCalls, in order
    toolCallObjectDict, \* getToolCalls.toolCallObjectDict
    toolCalls,          \* what getToolCalls returned
    callPos,            \* tool calls getToolResults has gone through
    toolResults,        \* getToolResults.toolResults
    executed,           \* ids of the calls whose executable ran to completion, in order
    upstream,           \* what streamRequest has yielded to its caller
    round2,             \* tool_calls and tool_results of the round-2 query (NoRound2: not made)
    r2yielded,          \* what streamRequestBase has yielded in round 2
    tstep,              \* what the last step of the orchestrator did
    toolRaised          \* the exception streamRequest ended with (NoErr: none)

toolVars == <<names, tpc, arrived, toolCallObjectDict, toolCalls, callPos, toolResults,
              executed, upstream, round2, r2yielded, tstep, toolRaised>>

NoRound2 == [made |-> FALSE, tool_calls |-> <<>>, tool_results |-> <<>>]

ToolStep(op, call, thrown) == [op |-> op, call |-> call, thrown |-> thrown]

ToolCall(id, name, arguments) == [id |-> id, name |-> name, arguments |-> arguments]

NoCall == ToolCall(-1, <<>>, <<>>)

ToolsIdle ==
    /\ names = <<>>
    /\ tpc = "idle"
    /\ arrived = <<>>
    /\ toolCallObjectDict = <<>>
    /\ toolCalls = <<>>
    /\ callPos = 0
    /\ toolResults = <<>>
    /\ executed = <<>>
    /\ upstream = <<>>
    /\ round2 = NoRound2
    /\ r2yielded = <<>>
    /\ tstep = ToolStep("init", NoCall, NoErr)
    /\ toolRaised = NoErr

\* makeApp and the POST routes of the bots it serves (specification SpecServer).
VARIABLES
    express,        \* major version of the express package the app runs on
    arg,            \* the arguments of makeApp: bot(s), accessKey, apiKey, allowWithoutKey
    environ,        \* process.env: POE_ACCESS_KEY and POE_API_KEY
    bots,           \* makeApp: the bot objects, each with its path and accessKey
    appPc,          \* makeApp: "resolve", "paths", "keys", "routes", "serving", "failed"
    routes,         \* the bots addRoutesForBot has been called for, in order
    appError,       \* the exception makeApp ended with (NoErr: none)
    request,        \* the POST being handled
    reqPc,          \* its position: "idle", "auth", "dispatch", "responded", "hung"
    response,       \* the response sent for it (NoResponse: none)
    handlerRan      \* the bot handler that ran for it ("": none)

serverVars == <<express, arg, environ, bots, appPc, routes, appError, request, reqPc,
                response, handlerRan>>

Response(status, body, headers) == [status |-> status, body |-> body, headers |-> headers]

NoResponse == Response(0, "", {})

PostRequest(bot, authorization, type) ==
    [bot |-> bot, authorization |-> authorization, type |-> type]

NoRequest == PostRequest(0, <<>>, "")

ServerIdle ==
    /\ express = 0
    /\ arg = <<>>
    /\ environ = <<>>
    /\ bots = <<>>
    /\ appPc = "idle"
    /\ routes = <<>>
    /\ appError = NoErr
    /\ request = NoRequest
    /\ reqPc = "idle"
    /\ response = NoResponse
    /\ handlerRan = ""

\* ExpressEventSourceResponse.handleRequest and its tasks (specification
\* SpecDriver).
VARIABLES
    sendTimeout,    \* options.sendTimeout is set
    content,        \* bodyIterator: "handleQuery" (the route's) or any other "iterable"
    iterDone,       \* bodyIterator has yielded the done event of handleQuery
    peerClosed,     \* the request has emitted 'close': the peer is gone
    active,         \* this.active
    interrupted,    \* streamResponse.interrupted
    timer,          \* the send timer: "off", "armed", "fired"
    srPc,           \* streamResponse: "loop", "resolved", "rejected"
    pingPc,         \* ping: "sleeping", "resolved"
    senderPc,       \* dataSenderCallable(): "none", "running", "resolved", "rejected"
    closeEmitted,   \* events.emit('close') has happened
    race,           \* Promise.race(tasks): "pending", "resolved", "rejected"
    hrPc,           \* handleRequest: "racing", "returned", "thrown"
    emitted,        \* events bodyIterator has yielded
    written,        \* what res.write was called with, heartbeats left out, in order
    last,           \* the kind of the last record written ("": none)
    heartbeat,      \* parity of the number of heartbeats written
    ends            \* calls of res.end

driverVars == <<sendTimeout, content, iterDone, peerClosed, active, interrupted, timer, srPc, pingPc, senderPc,
                closeEmitted, race, hrPc, emitted, written, last, heartbeat, ends>>

DriverIdle ==
    /\ sendTimeout = FALSE
    /\ content = ""
    /\ iterDone = FALSE
    /\ peerClosed = FALSE
    /\ active = FALSE
    /\ interrupted = FALSE
    /\ timer = "off"
    /\ srPc = "idle"
    /\ pingPc = "idle"
    /\ senderPc = "none"
    /\ closeEmitted = FALSE
    /\ race = "idle"
    /\ hrPc = "idle"
    /\ emitted = 0
    /\ written = <<>>
    /\ last = ""
    /\ heartbeat = FALSE
    /\ ends = 0

\* PoeBot.handleQuery around the bot's handler, with the attachment uploads
\* of the query (specification SpecQuery).
VARIABLES
    qpc,            \* handleQuery: "handler", "drain", "draining", "done", "finished"
    awaiting,       \* the upload the handler awaits (0: none)
    uploads,        \* the tasks postMessageAttachment has made, by id: their state
    pendingFileAttachmentTasks, \* this.pendingFileAttachmentTasks[request.messageId]
    snapshot,       \* the tasks the Promise.all of the drain waits for
    qout,           \* the events handleQuery has yielded, in order
    relayed,        \* how many of them it had yielded when the handler ended
    handlerError    \* the message of the exception the handler ended with ("": none)

queryVars == <<qpc, awaiting, uploads, pendingFileAttachmentTasks, snapshot, qout, relayed,
               handlerError>>

\* no entry for the message id in the table
NoEntry == [present |-> FALSE, tasks |-> <<>>]

QueryIdle ==
    /\ qpc = "idle"
    /\ awaiting = 0
    /\ uploads = <<>>
    /\ pendingFileAttachmentTasks = NoEntry
    /\ snapshot = <<>>
    /\ qout = <<>>
    /\ relayed = 0
    /\ handlerError = ""

\* encodeServerSentEvent on the server, the transport, and EventSource.iterSSE
\* with its SSEDecoder on the client (specification SpecCodec).
VARIABLES
    sep,            \* the separator the server encodes with: "CRLF", "CR" or "LF"
    records,        \* the events and comments the server encodes, in order
    sent,           \* how many of them it has encoded and written
    inflight,       \* the characters written and not yet delivered to the client
    buffer,         \* iterSSE.buffer
    decoder,        \* the SSEDecoder: event, data, lastEventId, retry
    fieldSeen,      \* a field line has been decoded since the last blank line
    sses,           \* the events iterSSE has yielded, in order
    cpc             \* the stream: "open", "ended"

codecVars == <<sep, records, sent, inflight, buffer, decoder, fieldSeen, sses, cpc>>

CodecIdle ==
    /\ sep = ""
    /\ records = <<>>
    /\ sent = 0
    /\ inflight = <<>>
    /\ buffer = <<>>
    /\ decoder = <<>>
    /\ fieldSeen = FALSE
    /\ sses = <<>>
    /\ cpc = "idle"

\* new ExpressEventSourceResponse(content, options) and what the response it
\* builds writes (specification SpecSep).
VARIABLES
    optionsSep,          \* options.sep: a text, or NoField when left out
    pingMessageFactory,  \* options.pingMessageFactory is given
    thisSep,             \* this.sep
    ctor,                \* the constructor: "new", "built", "InvalidParameterError"; "ended"
    resWrite             \* the arguments and the chunk of each res.write, in order

ctorVars == <<optionsSep, pingMessageFactory, thisSep, ctor, resWrite>>

CtorIdle ==
    /\ optionsSep = <<>>
    /\ pingMessageFactory = FALSE
    /\ thisSep = <<>>
    /\ ctor = "idle"
    /\ resWrite = <<>>

\* modelDump and parseObj applied to an object (specification SpecKeys).
VARIABLES
    original,       \* the object the first call is given
    converted,      \* what the calls so far have made of it
    applied         \* the calls so far, in order: "modelDump", "parseObj"

keyVars == <<original, converted, applied>>

KeysIdle ==
    /\ original = <<>>
    /\ converted = <<>>
    /\ applied = <<>>

\* The caller of streamRequestBase (specification SpecCaller).
VARIABLES
    received        \* for each message the caller has got, in order: the attempt it is from

callerVars == <<received>>

CallerIdle == received = <<>>

\* An error event from the server side to the client (specification SpecErrors).
VARIABLES
    source,         \* what the server side makes the error event from
    sseData         \* the data of the event as written: the properties of the JSON object

errVars == <<source, sseData>>

ErrorsIdle ==
    /\ source = <<>>
    /\ sseData = <<>>

\* the variables the retry loop of the client never touches
otherVars == <<streamVars, toolVars, serverVars, driverVars, queryVars, codecVars, ctorVars, keyVars, callerVars, errVars>>

OthersIdle == StreamIdle /\ ToolsIdle /\ ServerIdle /\ DriverIdle /\ QueryIdle /\ CodecIdle /\ CtorIdle /\ KeysIdle /\ CallerIdle /\ ErrorsIdle

\* the variables one attempt never touches
restStream == <<toolVars, serverVars, driverVars, queryVars, codecVars, ctorVars, keyVars, callerVars, errVars>>

\* the variables the tool orchestrator never touches
restTools == <<clientVars, streamVars, serverVars, driverVars, queryVars, codecVars, ctorVars, keyVars, callerVars, errVars>>

\* the variables the server never touches
restServer == <<clientVars, streamVars, toolVars, driverVars, queryVars, codecVars, ctorVars, keyVars, callerVars, errVars>>

\* the variables the streaming driver never touches
restDriver == <<clientVars, streamVars, toolVars, serverVars, queryVars, codecVars, ctorVars, keyVars, callerVars, errVars>>

\* the variables handleQuery never touches
restQuery == <<clientVars, streamVars, toolVars, serverVars, driverVars, codecVars, ctorVars, keyVars, callerVars, errVars>>

\* the variables the event stream codec never touches
restCodec == <<clientVars, streamVars, toolVars, serverVars, driverVars, queryVars, ctorVars, keyVars, callerVars, errVars>>

\* the variables the constructor of the streaming driver never touches
restCtor == <<clientVars, streamVars, toolVars, serverVars, driverVars, queryVars, codecVars, keyVars, callerVars, errVars>>

\* the variables modelDump and parseObj never touches
restKeys == <<clientVars, streamVars, toolVars, serverVars, driverVars, queryVars, codecVars, ctorVars, callerVars, errVars>>

\* the variables the retry loop and its caller never touch
restCaller == <<streamVars, toolVars, serverVars, driverVars, queryVars, codecVars, ctorVars, keyVars, errVars>>

\* the variables the error event on its way never touches
restErrors == <<clientVars, streamVars, toolVars, serverVars, driverVars, queryVars, codecVars, ctorVars, keyVars, callerVars>>

vars == <<clientVars, otherVars>>

\* const { numTries = 2 } = options
numTries == IF optNumTries = Undefined THEN DefaultNumTries ELSE optNumTries

ToolsValues == {JAbsent, JVal("object", "[]"), JVal("object", "[tool]")}

Step(op, ev, yielded, reports, thrown) ==
    [op |-> op, ev |-> ev, yielded |-> yielded, reports |-> reports, thrown |-> thrown]

Init ==
    /\ optNumTries \in {Undefined} \cup (0..MaxTries)
    /\ tools \in ToolsValues
    /\ pc = "loop"
    /\ i = 0
    /\ gotResponse = FALSE
    /\ eventCount = 0
    /\ chunks = <<>>
    /\ errorReported = FALSE
    /\ posts = 0
    /\ sleeps = 0
    /\ attemptYields = 0
    /\ sawDone = FALSE
    /\ step = Step("init", NoEvent, <<>>, <<>>, NoErr)
    /\ raised = NoErr
    /\ OthersIdle

\* ------------------------------------------------------ streamRequestBase
\* for (let i = 0; i < numTries; i++)
LoopCondition_OneMore(k, n) == k <= n

LoopCondition(k, n) == k < n

allowRetryAfterResponse_Always(e) == TRUE

\* isAxiosError(e) && e.code === 'ECONNABORTED'
allowRetryAfterResponse(e) == isAxiosError(e) /\ e.message = "ECONNABORTED"

GiveUp_IgnoreLastTry(e, got, k, n) == got /\ ~allowRetryAfterResponse(e)

\* (gotResponse && !allowRetryAfterResponse) || i === numTries - 1
GiveUp(e, got, k, n) == (got /\ ~allowRetryAfterResponse(e)) \/ k = n - 1

\* await new Promise((resolve) => setTimeout(resolve, retrySleepTime * 1000)), once
SleepBeforeRetry(s) == s + 1

\* The catch block of the retry loop, given the exception and gotResponse as
\* the attempt left it.
Catch(e, got) ==
    IF isBotErrorNoRetry(e)
    THEN /\ pc' = "raised"
         /\ raised' = e
         /\ UNCHANGED <<i, sleeps>>
    ELSE IF isError(e)
    THEN IF GiveUp(e, got, i, numTries)
         THEN /\ pc' = "raised"
              /\ raised' = BotError("Error communicating with bot")
              /\ UNCHANGED <<i, sleeps>>
         ELSE /\ pc' = "sleep"
              /\ sleeps' = SleepBeforeRetry(sleeps)
              /\ UNCHANGED <<i, raised>>
    ELSE \* neither branch of the catch: the exception is dropped, next iteration
         /\ pc' = "loop"
         /\ i' = i + 1
         /\ UNCHANGED <<sleeps, raised>>

\* Loop head: performQueryRequest POSTs the query and opens the event source;
\* iterSSE checks the Content-Type before the first event.
Post ==
    /\ pc = "loop"
    /\ LoopCondition(i, numTries)
    /\ posts' = posts + 1
    /\ eventCount' = 0
    /\ chunks' = <<>>
    /\ errorReported' = FALSE
    /\ attemptYields' = 0
    /\ sawDone' = FALSE
    /\ \E r \in NetOutcomes \cup {"text/html"} :
         LET e == IF r \in NetFailures THEN AxiosError(r, "query")
                  ELSE IF r = "text/html" THEN ContentTypeError ELSE NoErr
         IN /\ step' = Step("post", NoEvent, <<>>, <<>>, e)
            /\ IF e = NoErr
               THEN pc' = "stream" /\ UNCHANGED <<i, sleeps, raised>>
               ELSE Catch(e, gotResponse)
    /\ UNCHANGED <<optNumTries, tools, gotResponse, otherVars>>

\* The loop condition fails: the generator returns.
LoopExit ==
    /\ pc = "loop"
    /\ ~LoopCondition(i, numTries)
    /\ pc' = "returned"
    /\ step' = Step("exit", NoEvent, <<>>, <<>>, NoErr)
    /\ UNCHANGED <<optNumTries, tools, i, gotResponse, eventCount, chunks, errorReported,
                   posts, sleeps, attemptYields, sawDone, raised, otherVars>>

\* The retry sleep is over: i++ and back to the loop head.
Wake ==
    /\ pc = "sleep"
    /\ pc' = "loop"
    /\ i' = i + 1
    /\ step' = Step("wake", NoEvent, <<>>, <<>>, NoErr)
    /\ UNCHANGED <<optNumTries, tools, gotResponse, eventCount, chunks, errorReported,
                   posts, sleeps, attemptYields, sawDone, raised, otherVars>>

\* The outcomes of the (at most two) report POSTs of one iteration.
Nets == [1..2 -> NetOutcomes]

\* One iteration of `for await (const sse of eventSource.iterSSE())` with its
\* result, and what streamRequestBase does with it: gotResponse = true and the
\* yield for a message, the catch block for an exception, break for a return.
Iterate(op, ev, res) ==
    /\ chunks' = res.chunks
    /\ errorReported' = res.errorReported
    /\ attemptYields' = attemptYields + Len(res.yielded)
    /\ gotResponse' = (gotResponse \/ Len(res.yielded) > 0)
    /\ step' = Step(op, ev, res.yielded, res.reports, res.thrown)
    /\ IF res.thrown # NoErr
       THEN Catch(res.thrown, gotResponse')
       ELSE /\ pc' = IF res.returned THEN "returned" ELSE "stream"
            /\ UNCHANGED <<i, sleeps, raised>>
    /\ UNCHANGED <<optNumTries, tools, posts, otherVars>>

\* iterSSE delivers the next event of the open stream
NextEvent ==
    /\ pc = "stream"
    /\ eventCount < MaxEvents
    /\ eventCount' = eventCount + 1

EvDone ==
    /\ NextEvent
    /\ sawDone' = TRUE
    /\ \E net \in Nets :
         Iterate("event", SSE("done", DataEmptyObject), onDone(chunks, errorReported, tools, net))

EvText ==
    /\ NextEvent
    /\ UNCHANGED sawDone
    /\ \E data \in TextDatas, net \in Nets :
         Iterate("event", SSE("text", data), onText(chunks, errorReported, data, net))

EvReplaceResponse ==
    /\ NextEvent
    /\ UNCHANGED sawDone
    /\ \E data \in TextDatas, net \in Nets :
         Iterate("event", SSE("replace_response", data),
                 onReplaceResponse(chunks, errorReported, data, net))

EvSuggestedReply ==
    /\ NextEvent
    /\ UNCHANGED sawDone
    /\ \E data \in SuggestedDatas, net \in Nets :
         Iterate("event", SSE("suggested_reply", data),
                 onSuggestedReply(chunks, errorReported, data, net))

EvJson ==
    /\ NextEvent
    /\ UNCHANGED sawDone
    /\ \E data \in JsonDatas :
         Iterate("event", SSE("json", data), onJson(chunks, errorReported, data))

EvMeta ==
    /\ NextEvent
    /\ UNCHANGED sawDone
    /\ \E data \in MetaDatas, net \in Nets :
         Iterate("event", SSE("meta", data),
                 onMeta(chunks, errorReported, eventCount', data, net))

EvError ==
    /\ NextEvent
    /\ UNCHANGED sawDone
    /\ \E data \in ErrorDatas, net \in Nets :
         Iterate("event", SSE("error", data), onError(chunks, errorReported, data, net))

EvPing ==
    /\ NextEvent
    /\ UNCHANGED sawDone
    /\ Iterate("event", SSE("ping", DataEmptyObject), onPing(chunks, errorReported))

EvUnknown ==
    /\ NextEvent
    /\ UNCHANGED sawDone
    /\ \E net \in Nets :
         Iterate("event", SSE("unknown", DataEmptyObject), onUnknown(chunks, errorReported, net))

\* The response stream closes without a done event.
StreamEnd ==
    /\ pc = "stream"
    /\ UNCHANGED <<eventCount, sawDone>>
    /\ \E net \in Nets : Iterate("end", NoEvent, onStreamEnd(chunks, errorReported, net))

\* Reading the response stream fails (read timeout, reset connection).
StreamError ==
    /\ pc = "stream"
    /\ UNCHANGED <<eventCount, sawDone>>
    /\ \E code \in NetFailures :
         Iterate("broken", NoEvent, Throw(chunks, errorReported, <<>>, AxiosError(code, "stream")))

Next ==
    \/ Post
    \/ LoopExit
    \/ Wake
    \/ EvDone
    \/ EvText
    \/ EvReplaceResponse
    \/ EvSuggestedReply
    \/ EvJson
    \/ EvMeta
    \/ EvError
    \/ EvPing
    \/ EvUnknown
    \/ StreamEnd
    \/ StreamError

Spec == Init /\ [][Next]_vars

\* ------------------------------------------- streamRequestBase's caller
\* `yield message` of streamRequestBase, in attempt k: the generator hands
\* each message to its caller as performQueryRequest yields it
Deliver_ThisAttemptOnly(got, yielded, k) ==
    SelectSeq(got, LAMBDA a : a = k) \o [j \in 1..Len(yielded) |-> k]

Deliver(got, yielded, k) == got \o [j \in 1..Len(yielded) |-> k]

\* every report POST is answered
Answered == [k \in 1..2 |-> "ok"]

\* The call as its caller sees it: the bot sends text events, error events
\* and done, the stream may break.
InitCaller == Init /\ tools = JAbsent

\* Iterate, with the caller taking the messages yielded
IterateToCaller(op, ev, res) ==
    /\ chunks' = res.chunks
    /\ errorReported' = res.errorReported
    /\ attemptYields' = attemptYields + Len(res.yielded)
    /\ gotResponse' = (gotResponse \/ Len(res.yielded) > 0)
    /\ received' = Deliver(received, res.yielded, i)
    /\ step' = Step(op, ev, res.yielded, res.reports, res.thrown)
    /\ IF res.thrown # NoErr
       THEN Catch(res.thrown, gotResponse')
       ELSE /\ pc' = IF res.returned THEN "returned" ELSE "stream"
            /\ UNCHANGED <<i, sleeps, raised>>
    /\ UNCHANGED <<optNumTries, tools, posts, restCaller>>

CallerText ==
    /\ NextEvent
    /\ UNCHANGED sawDone
    /\ IterateToCaller("event", SSE("text", DataText(JStr("A"))),
                       onText(chunks, errorReported, DataText(JStr("A")), Answered))

CallerDone ==
    /\ NextEvent
    /\ sawDone' = TRUE
    /\ IterateToCaller("event", SSE("done", DataEmptyObject),
                       onDone(chunks, errorReported, tools, Answered))

CallerError ==
    /\ NextEvent
    /\ UNCHANGED sawDone
    /\ \E data \in {DataError(JTrue), DataError(JFalse)} :
         IterateToCaller("event", SSE("error", data),
                         onError(chunks, errorReported, data, Answered))

CallerBroken ==
    /\ pc = "stream"
    /\ UNCHANGED <<eventCount, sawDone>>
    /\ \E code \in NetFailures :
         IterateToCaller("broken", NoEvent,
                         Throw(chunks, errorReported, <<>>, AxiosError(code, "stream")))

NextCaller ==
    \/ Post
    \/ LoopExit
    \/ Wake
    \/ CallerText
    \/ CallerDone
    \/ CallerError
    \/ CallerBroken

SpecCaller == InitCaller /\ [][NextCaller]_vars

\* ------------------------------------- one attempt: wire in, messages out
\* longest response stream of the attempt
MaxWire == 3

\* the events a response stream is made of
StreamEvents ==
    {SSE("text", DataText(JStr(t))) : t \in Texts}
    \cup {SSE("text", DataScalar),
          SSE("replace_response", DataText(JStr("A"))),
          SSE("suggested_reply", DataText(JStr("B"))),
          SSE("json", DataEmptyObject),
          SSE("json", DataInvalid),
          SSE("meta", DataEmptyObject),
          SSE("ping", DataEmptyObject),
          SSE("done", DataEmptyObject)}

\* The if / else-if chain on sse.event inside the for-await loop.
Dispatch(sse, ch, er, tl, count, net) ==
    CASE sse.event = "done" -> onDone(ch, er, tl, net)
      [] sse.event = "text" -> onText(ch, er, sse.data, net)
      [] sse.event = "replace_response" -> onReplaceResponse(ch, er, sse.data, net)
      [] sse.event = "suggested_reply" -> onSuggestedReply(ch, er, sse.data, net)
      [] sse.event = "json" -> onJson(ch, er, sse.data)
      [] sse.event = "meta" -> onMeta(ch, er, count, sse.data, net)
      [] sse.event = "error" -> onError(ch, er, sse.data, net)
      [] sse.event = "ping" -> onPing(ch, er)
      [] OTHER -> onUnknown(ch, er, net)

\* The POST of the attempt has been answered with an event stream; pc is the
\* position of performQueryRequest: "stream" inside the loop, "returned",
\* or "raised" with the exception in raised.
InitStream ==
    /\ wire \in UNION {[1..n -> StreamEvents] : n \in 0..MaxWire}
    /\ delivered = <<>>
    /\ finalChunks = <<>>
    /\ optNumTries = Undefined
    /\ tools \in {JAbsent, JVal("object", "[tool]")}
    /\ pc = "stream"
    /\ i = 0
    /\ gotResponse = FALSE
    /\ eventCount = 0
    /\ chunks = <<>>
    /\ errorReported = FALSE
    /\ posts = 1
    /\ sleeps = 0
    /\ attemptYields = 0
    /\ sawDone = FALSE
    /\ step = Step("post", NoEvent, <<>>, <<>>, NoErr)
    /\ raised = NoErr
    /\ ToolsIdle
    /\ ServerIdle
    /\ DriverIdle
    /\ QueryIdle
    /\ CodecIdle
    /\ CtorIdle
    /\ KeysIdle
    /\ CallerIdle
    /\ ErrorsIdle

\* 'suggestedReplies' in message
isMetaMessage(message) == message.suggestedReplies # JAbsent

CollectOne_KeepAll(acc, message) ==
    IF isMetaMessage(message) \/ message.isSuggestedReply THEN acc
    ELSE Append(acc, message.text)

\* the body of the for-await loop of getFinalResponse
CollectOne(acc, message) ==
    IF isMetaMessage(message) THEN acc
    ELSE IF message.isSuggestedReply THEN acc
    ELSE Append(IF message.isReplaceResponse THEN <<>> ELSE acc, message.text)

\* the loop of getFinalResponse given what the generator yields in one step
Collect(acc, yielded) == IF yielded = <<>> THEN acc ELSE CollectOne(acc, yielded[1])

\* chunks.join(''): the characters of texts of one character or none
JoinText(ch) == SelectSeq(ch, LAMBDA t : t # "")

\* getFinalResponse after its loop: what it throws or returns
getFinalResponse(ch) ==
    IF Len(ch) = 0
    THEN [thrown |-> BotError("sent no response"), text |-> <<>>]
    ELSE [thrown |-> NoErr, text |-> JoinText(ch)]

\* What the generator does with the result of one loop iteration, and the
\* loop of getFinalResponse with what it yields.
Generate(op, ev, res) ==
    /\ chunks' = res.chunks
    /\ errorReported' = res.errorReported
    /\ delivered' = delivered \o res.yielded
    /\ finalChunks' = Collect(finalChunks, res.yielded)
    /\ attemptYields' = attemptYields + Len(res.yielded)
    /\ step' = Step(op, ev, res.yielded, res.reports, res.thrown)
    /\ raised' = res.thrown
    /\ pc' = IF res.thrown # NoErr THEN "raised"
             ELSE IF res.returned THEN "returned" ELSE "stream"
    /\ UNCHANGED <<optNumTries, tools, i, gotResponse, posts, sleeps, wire, restStream>>

\* iterSSE yields the next event of the stream and the loop body handles it
StreamEvent ==
    /\ pc = "stream"
    /\ eventCount < Len(wire)
    /\ eventCount' = eventCount + 1
    /\ sawDone' = (wire[eventCount'].event = "done")
    /\ \E net \in Nets :
         Generate("event", wire[eventCount'],
                  Dispatch(wire[eventCount'], chunks, errorReported, tools, eventCount', net))

\* iterSSE is exhausted: the code after the loop
StreamClosed ==
    /\ pc = "stream"
    /\ eventCount = Len(wire)
    /\ UNCHANGED <<eventCount, sawDone>>
    /\ \E net \in Nets : Generate("end", NoEvent, onStreamEnd(chunks, errorReported, net))

NextStream ==
    \/ StreamEvent
    \/ StreamClosed

SpecStream == InitStream /\ [][NextStream]_vars

\* ------------------------------------------- streamRequest with executables
\* most messages round 1 yields
MaxDeltas == 3
\* most messages round 2 yields
MaxRound2 == 2

\* Strings are sequences of characters.
Upper == {"W", "R", "T"}

\* c.toLowerCase(), also for the words Bearer and Basic taken as one character
ToLowerCase(c) ==
    CASE c = "W" -> "w"
      [] c = "R" -> "r"
      [] c = "T" -> "t"
      [] c = "Bearer" -> "bearer"
      [] c = "Basic" -> "basic"
      [] OTHER -> c

RECURSIVE camelToSnakeCase(_)
\* str.replace(/[A-Z]/g, (letter) => `_${letter.toLowerCase()}`)
camelToSnakeCase(str) ==
    IF str = <<>> THEN <<>>
    ELSE (IF Head(str) \in Upper THEN <<"_", ToLowerCase(Head(str))>> ELSE <<Head(str)>>)
         \o camelToSnakeCase(Tail(str))

\* options.toolExecutables, by function name: add and getWeather, say
toolExecutables == << <<"a">>, <<"g", "W">> >>

\* name in toolExecutablesDict
InExecutablesDict(name) ==
    \E k \in DOMAIN toolExecutables : camelToSnakeCase(toolExecutables[k]) = name

\* the index values of the tool-call deltas
Indices == {0, 1}

\* the function names the bot asks for: two that have an executable, the
\* camelCase spelling of one, and one nobody supplied
CallNames == {<<"a">>, <<"g", "_", "w">>, <<"g", "W">>, <<"m">>}

\* fragments of function.arguments
Fragments == {<<"{">>, <<"}">>, <<"{", "}">>}

\* JSON.parse accepts the text: over this alphabet only "{}" is JSON
ValidJSON(text) == text = <<"{", "}">>

\* The messages round 1 yields: a json event whose data carries one tool-call
\* delta, one whose choices[0].delta has no tool_calls, one whose choices[0]
\* has a finish_reason, and a text event (no data).
Chunk(kind, index, arguments) == [kind |-> kind, index |-> index, arguments |-> arguments]

Round1Messages ==
    {Chunk("delta", x, f) : x \in Indices, f \in Fragments}
    \cup {Chunk(k, -1, <<>>) : k \in {"no_tool_calls", "finish", "text"}}

AppendArguments_Prepend(old, fragment) == fragment \o old

\* toolCallObjectInDict.function.arguments += toolCallObject.function.arguments
AppendArguments(old, fragment) == old \o fragment

\* The body of the for-await loop of getToolCalls for one message.
Aggregate(dict, m) ==
    IF m.kind \in {"text", "finish"} THEN dict
    ELSE IF m.kind = "no_tool_calls" THEN dict     \* TypeError, caught: continue
    ELSE IF m.index \notin DOMAIN dict
    THEN [x \in DOMAIN dict \cup {m.index} |->
            IF x = m.index THEN ToolCall(m.index, names[m.index], m.arguments) ELSE dict[x]]
    ELSE [dict EXCEPT ![m.index].arguments = AppendArguments(@, m.arguments)]

RECURSIVE SortByIndex(_)
\* Object.values(toolCallObjectDict).sort((a, b) => a.index - b.index)
SortByIndex(dict) ==
    IF DOMAIN dict = {} THEN <<>>
    ELSE LET least == CHOOSE x \in DOMAIN dict : \A y \in DOMAIN dict : x <= y
         IN <<dict[least]>> \o SortByIndex([x \in DOMAIN dict \ {least} |-> dict[x]])

\* What an executable does when called: the items it yields, then it returns
\* or throws.  "status" is a PartialResponse, "result" an AsyncResult.
Run(items, throws) == [items |-> items, throws |-> throws]
Runs ==
    {Run(it, FALSE) : it \in {<<"result">>, <<"status", "result">>, <<"status">>,
                              <<"result", "result">>}}
    \cup {Run(<<"status">>, TRUE)}

StatusMessage(call) == [type |-> "status", from |-> call.id, text |-> "S"]

Round2Messages == {[type |-> "text", from |-> -1, text |-> t] : t \in Texts}

\* { role: 'tool', toolCallId, name, content: JSON.stringify(resp.result) }
ToolResult(call) == [toolCallId |-> call.id, name |-> call.name, content |-> "R"]

PushToolResult_Front(results, call) == <<ToolResult(call)>> \o results

\* toolResults.push(...)
PushToolResult(results, call) == Append(results, ToolResult(call))

IsStatus(item) == item = "status"

IsResult(item) == item = "result"

RECURSIVE PushAll(_, _, _)
\* for await (const resp of toolFunction(argumentsObj)): the pushes
PushAll(results, call, items) ==
    IF items = <<>> THEN results
    ELSE PushAll(IF IsResult(Head(items)) THEN PushToolResult(results, call) ELSE results,
                 call, Tail(items))

\* ... and the yields
Statuses(call, items) == [k \in DOMAIN SelectSeq(items, IsStatus) |-> StatusMessage(call)]

\* the client as it is before a call
ClientIdle ==
    /\ optNumTries = Undefined
    /\ tools = JVal("object", "[tool]")
    /\ pc = "loop"
    /\ i = 0
    /\ gotResponse = FALSE
    /\ eventCount = 0
    /\ chunks = <<>>
    /\ errorReported = FALSE
    /\ posts = 0
    /\ sleeps = 0
    /\ attemptYields = 0
    /\ sawDone = FALSE
    /\ step = Step("init", NoEvent, <<>>, <<>>, NoErr)
    /\ raised = NoErr

\* streamRequest has been called with tools and toolExecutables.
InitTools ==
    /\ names \in [Indices -> CallNames]
    /\ tpc = "round1"
    /\ arrived = <<>>
    /\ toolCallObjectDict = <<>>
    /\ toolCalls = <<>>
    /\ callPos = 0
    /\ toolResults = <<>>
    /\ executed = <<>>
    /\ upstream = <<>>
    /\ round2 = NoRound2
    /\ r2yielded = <<>>
    /\ tstep = ToolStep("init", NoCall, NoErr)
    /\ toolRaised = NoErr
    /\ ClientIdle
    /\ StreamIdle
    /\ ServerIdle
    /\ DriverIdle
    /\ QueryIdle
    /\ CodecIdle
    /\ CtorIdle
    /\ KeysIdle
    /\ CallerIdle
    /\ ErrorsIdle

\* getToolCalls: streamRequestBase yields a message of round 1
Round1Message ==
    /\ tpc = "round1"
    /\ Len(arrived) < MaxDeltas
    /\ \E m \in Round1Messages :
         /\ arrived' = Append(arrived, m)
         /\ toolCallObjectDict' = Aggregate(toolCallObjectDict, m)
         /\ tstep' = ToolStep("message", NoCall, NoErr)
    /\ UNCHANGED <<names, tpc, toolCalls, callPos, toolResults, executed, upstream, round2,
                   r2yielded, toolRaised, restTools>>

\* getToolCalls: round 1 is over, the calls are sorted and returned
Round1Return ==
    /\ tpc = "round1"
    /\ toolCalls' = SortByIndex(toolCallObjectDict)
    /\ tpc' = "exec"
    /\ tstep' = ToolStep("calls", NoCall, NoErr)
    /\ UNCHANGED <<names, arrived, toolCallObjectDict, callPos, toolResults, executed, upstream,
                   round2, r2yielded, toolRaised, restTools>>

\* streamRequestBase raises: in round 1 out of getToolCalls, in round 2 out
\* of the forwarding loop
RequestRaises ==
    /\ tpc \in {"round1", "round2"}
    /\ \E e \in {BotError("Error communicating with bot"), BotErrorNoRetry("error event")} :
         /\ toolRaised' = e
         /\ tstep' = ToolStep("request", NoCall, e)
    /\ tpc' = "raised"
    /\ UNCHANGED <<names, arrived, toolCallObjectDict, toolCalls, callPos, toolResults,
                   executed, upstream, round2, r2yielded, restTools>>

\* getToolResults: one iteration of `for (const toolCall of toolCalls)`
ExecuteCall ==
    /\ tpc = "exec"
    /\ callPos < Len(toolCalls)
    /\ LET call == toolCalls[callPos + 1] IN
       IF ~ValidJSON(call.arguments)
       THEN \* JSON.parse(toolCall.function.arguments) throws
            /\ tpc' = "raised"
            /\ toolRaised' = SyntaxError
            /\ tstep' = ToolStep("call", call, SyntaxError)
            /\ UNCHANGED <<callPos, toolResults, executed, upstream>>
       ELSE IF ~InExecutablesDict(call.name)
       THEN \* if (toolFunction) fails
            /\ callPos' = callPos + 1
            /\ tstep' = ToolStep("call", call, NoErr)
            /\ UNCHANGED <<tpc, toolRaised, toolResults, executed, upstream>>
       ELSE \E run \in Runs :
            /\ toolResults' = PushAll(toolResults, call, run.items)
            /\ upstream' = upstream \o Statuses(call, run.items)
            /\ IF run.throws
               THEN /\ tpc' = "raised"
                    /\ toolRaised' = Err("Error", "executable", "tool")
                    /\ tstep' = ToolStep("call", call, toolRaised')
                    /\ UNCHANGED <<callPos, executed>>
               ELSE /\ callPos' = callPos + 1
                    /\ executed' = Append(executed, [id |-> call.id, items |-> run.items])
                    /\ tstep' = ToolStep("call", call, NoErr)
                    /\ UNCHANGED <<tpc, toolRaised>>
    /\ UNCHANGED <<names, arrived, toolCallObjectDict, toolCalls, round2, r2yielded, restTools>>

\* round 2 made only for a non-empty list of tool calls
Round2Post_OnlyWithCalls ==
    /\ tpc = "exec"
    /\ ~(callPos < Len(toolCalls))
    /\ IF toolCalls = <<>>
       THEN tpc' = "returned" /\ UNCHANGED round2
       ELSE /\ round2' = [made |-> TRUE, tool_calls |-> toolCalls, tool_results |-> toolResults]
            /\ tpc' = "round2"
    /\ tstep' = ToolStep("post", NoCall, NoErr)
    /\ UNCHANGED <<names, arrived, toolCallObjectDict, toolCalls, callPos, toolResults,
                   executed, upstream, r2yielded, toolRaised, restTools>>

\* getToolResults yields toolResults; streamRequest starts round 2 with them
Round2Post ==
    /\ tpc = "exec"
    /\ ~(callPos < Len(toolCalls))
    /\ round2' = [made |-> TRUE, tool_calls |-> toolCalls, tool_results |-> toolResults]
    /\ tpc' = "round2"
    /\ tstep' = ToolStep("post", NoCall, NoErr)
    /\ UNCHANGED <<names, arrived, toolCallObjectDict, toolCalls, callPos, toolResults,
                   executed, upstream, r2yielded, toolRaised, restTools>>

\* round 2: streamRequestBase yields a message and streamRequest yields it on
Round2Message ==
    /\ tpc = "round2"
    /\ Len(r2yielded) < MaxRound2
    /\ \E m \in Round2Messages :
         /\ r2yielded' = Append(r2yielded, m)
         /\ upstream' = Append(upstream, m)
    /\ tstep' = ToolStep("forward", NoCall, NoErr)
    /\ UNCHANGED <<names, tpc, arrived, toolCallObjectDict, toolCalls, callPos, toolResults,
                   executed, round2, toolRaised, restTools>>

\* round 2 is over; getToolResults and streamRequest return
Round2Return ==
    /\ tpc = "round2"
    /\ tpc' = "returned"
    /\ tstep' = ToolStep("return", NoCall, NoErr)
    /\ UNCHANGED <<names, arrived, toolCallObjectDict, toolCalls, callPos, toolResults,
                   executed, upstream, round2, r2yielded, toolRaised, restTools>>

NextTools ==
    \/ Round1Message
    \/ Round1Return
    \/ RequestRaises
    \/ ExecuteCall
    \/ Round2Post
    \/ Round2Message
    \/ Round2Return

SpecTools == InitTools /\ [][NextTools]_vars

\* ------------------------------------------------------ makeApp and routes
\* most bots makeApp is given
MaxBots == 2

\* Strings are sequences of characters; K stands for a run of 32 characters
\* and s for a run of 5.
Width(c) == IF c = "K" THEN 32 ELSE IF c = "s" THEN 5 ELSE 1

RECURSIVE StrLen(_)
\* str.length
StrLen(str) == IF str = <<>> THEN 0 ELSE Width(Head(str)) + StrLen(Tail(str))

\* a key left out ('' or undefined), a key of 32 characters, a key of 5
KeyValues == {<<>>, <<"K">>, <<"s">>}

Paths == {"/", "/b"}

Bot(path, accessKey) == [path |-> path, accessKey |-> accessKey]

BotObjects == {Bot(p, k) : p \in Paths, k \in KeyValues}

InvalidParameterError(message) == Err("InvalidParameterError", message, "makeApp")

\* findAccessKey({accessKey, apiKey}): the first of accessKey, POE_ACCESS_KEY,
\* apiKey, POE_API_KEY that is set; null (here the empty string) otherwise
findAccessKey(accessKey, apiKey, env) ==
    IF accessKey # <<>> THEN accessKey
    ELSE IF env.POE_ACCESS_KEY # <<>> THEN env.POE_ACCESS_KEY
    ELSE IF apiKey # <<>> THEN apiKey
    ELSE IF env.POE_API_KEY # <<>> THEN env.POE_API_KEY
    ELSE <<>>

\* !(resolvedAccessKey.length !== 32)
KeyLengthOk(key) == StrLen(key) = 32

\* verifyAccessKey({accessKey, apiKey, allowWithoutKey})
verifyAccessKey(accessKey, apiKey, allowWithoutKey, env) ==
    LET resolvedAccessKey == findAccessKey(accessKey, apiKey, env) IN
    IF resolvedAccessKey = <<>>
    THEN IF allowWithoutKey THEN [key |-> <<>>, thrown |-> NoErr]
         ELSE [key |-> <<>>, thrown |-> InvalidParameterError("Please provide an access key")]
    ELSE IF ~KeyLengthOk(resolvedAccessKey)
    THEN [key |-> <<>>, thrown |-> InvalidParameterError("Invalid access key")]
    ELSE [key |-> resolvedAccessKey, thrown |-> NoErr]

\* makeApp is called: app.use(express.json()) and app.use(error middleware)
\* are done, the bots are still to be looked at.
InitServer ==
    /\ express \in {4, 5}
    /\ \E n \in 1..MaxBots, isArray \in BOOLEAN :
         /\ isArray \/ n = 1
         /\ arg \in [bot : [1..n -> BotObjects], isArray : {isArray}, accessKey : KeyValues,
                     apiKey : KeyValues, allowWithoutKey : BOOLEAN]
    /\ environ \in [POE_ACCESS_KEY : KeyValues, POE_API_KEY : {<<>>, <<"s">>}]
    /\ bots = arg.bot
    /\ appPc = "resolve"
    /\ routes = <<>>
    /\ appError = NoErr
    /\ request = NoRequest
    /\ reqPc = "idle"
    /\ response = NoResponse
    /\ handlerRan = ""
    /\ ClientIdle
    /\ StreamIdle
    /\ ToolsIdle
    /\ DriverIdle
    /\ QueryIdle
    /\ CodecIdle
    /\ CtorIdle
    /\ KeysIdle
    /\ CallerIdle
    /\ ErrorsIdle

\* makeApp throws
Fail(e) ==
    /\ appPc' = "failed"
    /\ appError' = e

\* if (!Array.isArray(bot)) { ... } else { ... }
ResolveKeys ==
    /\ appPc = "resolve"
    /\ IF ~arg.isArray
       THEN IF bots[1].accessKey = <<>>
            THEN LET v == verifyAccessKey(arg.accessKey, arg.apiKey, arg.allowWithoutKey, environ)
                 IN IF v.thrown # NoErr
                    THEN Fail(v.thrown) /\ UNCHANGED bots
                    ELSE /\ bots' = [bots EXCEPT ![1].accessKey = v.key]
                         /\ appPc' = "paths"
                         /\ UNCHANGED appError
            ELSE IF arg.accessKey # <<>>
            THEN Fail(InvalidParameterError("Cannot provide accessKey")) /\ UNCHANGED bots
            ELSE IF arg.apiKey # <<>>
            THEN Fail(InvalidParameterError("Cannot provide apiKey")) /\ UNCHANGED bots
            ELSE appPc' = "paths" /\ UNCHANGED <<bots, appError>>
       ELSE IF arg.accessKey # <<>> \/ arg.apiKey # <<>>
            THEN Fail(InvalidParameterError("When serving multiple bots")) /\ UNCHANGED bots
            ELSE appPc' = "paths" /\ UNCHANGED <<bots, appError>>
    /\ UNCHANGED <<express, arg, environ, routes, request, reqPc, response, handlerRan,
                   restServer>>

PathTaken_Never(k) == FALSE

\* pathToBots.has(bot.path) when forEach reaches the k-th bot
PathTaken(k) == \E j \in 1..(k - 1) : bots[j].path = bots[k].path

\* // Ensure paths are unique
CheckPaths ==
    /\ appPc = "paths"
    /\ IF \E k \in DOMAIN bots : PathTaken(k)
       THEN Fail(InvalidParameterError("Multiple bots are trying to use the same path"))
       ELSE appPc' = "keys" /\ UNCHANGED appError
    /\ UNCHANGED <<express, arg, environ, bots, routes, request, reqPc, response, handlerRan,
                   restServer>>

\* if (!bot.accessKey && !allowWithoutKey) throw, for each bot
CheckKeys ==
    /\ appPc = "keys"
    /\ IF \E k \in DOMAIN bots : bots[k].accessKey = <<>> /\ ~arg.allowWithoutKey
       THEN Fail(InvalidParameterError("Missing access key for bot"))
       ELSE appPc' = "routes" /\ UNCHANGED appError
    /\ UNCHANGED <<express, arg, environ, bots, routes, request, reqPc, response, handlerRan,
                   restServer>>

\* bots.forEach((bot) => addRoutesForBot(app, bot)); return app
AddRoutes ==
    /\ appPc = "routes"
    /\ routes' = [k \in DOMAIN bots |-> k]
    /\ appPc' = "serving"
    /\ UNCHANGED <<express, arg, environ, bots, appError, request, reqPc, response, handlerRan,
                   restServer>>

\* ----------------------------------------------------------- POST routes
RECURSIVE SplitFrom(_, _)
SplitFrom(str, word) ==
    IF str = <<>> THEN <<word>>
    ELSE IF Head(str) = " " THEN <<word>> \o SplitFrom(Tail(str), <<>>)
    ELSE SplitFrom(Tail(str), Append(word, Head(str)))

\* str.split(' ')
split(str) == SplitFrom(str, <<>>)

\* str.toLowerCase()
toLowerCase(str) == [k \in DOMAIN str |-> ToLowerCase(str[k])]

HTTPException(statusCode, message, headers) ==
    [name |-> "HTTPException", statusCode |-> statusCode, message |-> message,
     headers |-> headers]

NoException == HTTPException(0, "", {})

\* what express.json() passes to next() for a body that is not JSON
BodyParseError == [name |-> "SyntaxError", statusCode |-> 400, message |-> "body", headers |-> {}]

\* the Authorization header values of the requests; the empty string stands
\* for a request without the header as well
Headers ==
    {<<>>,
     <<"Bearer", " ", "K">>,
     <<"Bearer", " ", "s">>,
     <<"bearer", " ", "K">>,
     <<"Basic", " ", "K">>,
     <<"Bearer">>,
     <<"Bearer", " ", " ", "K">>,
     <<"Bearer", " ", "K", " ", "x">>}

HandledTypes == {"query", "settings", "report_feedback", "report_error"}

BodyTypes == HandledTypes \cup {"other", "malformed"}

\* extractAuthorization(req); a missing array element (undefined) is the
\* empty string here, both are falsy
extractAuthorization(authorization) ==
    LET parts == IF authorization # <<>> THEN split(authorization) ELSE <<>>
        scheme == IF Len(parts) >= 1 THEN parts[1] ELSE <<>>
        credentials == IF Len(parts) >= 2 THEN parts[2] ELSE <<>>
    IN [scheme |-> scheme, credentials |-> credentials,
        thrown |-> IF authorization = <<>> \/ scheme = <<>> \/ credentials = <<>>
                   THEN HTTPException(403, "Not authenticated", {})
                   ELSE IF toLowerCase(scheme) # <<"bearer">>
                   THEN HTTPException(403, "Invalid authorization credentials", {})
                   ELSE NoException]

\* The error middleware makeApp installs, before the routes.
ErrorMiddleware(error) ==
    IF error.name = "HTTPException"
    THEN Response(error.statusCode, error.message, {})
    ELSE Response(500, "Internal server error", {})

\* An async route handler throws.  express 4 drops the rejected promise: no
\* next(err), nothing is sent.  express 5 calls next(err): the error
\* middleware sits before the routes in the stack and is not gone back to, so
\* the default handler answers with the status and the headers of the error.
RouteThrows(error) ==
    /\ handlerRan' = ""
    /\ IF express = 4
       THEN reqPc' = "hung" /\ response' = NoResponse
       ELSE /\ reqPc' = "responded"
            /\ response' = Response(error.statusCode, "default error page", error.headers)

\* a POST arrives at the path of a bot: express.json() parses the body
ReceivePost ==
    /\ appPc = "serving"
    /\ reqPc \in {"idle", "responded", "hung"}
    /\ \E b \in DOMAIN routes, h \in Headers, t \in BodyTypes :
         /\ request' = PostRequest(routes[b], h, t)
         /\ IF t = "malformed"
            THEN reqPc' = "responded" /\ response' = ErrorMiddleware(BodyParseError)
            ELSE reqPc' = "auth" /\ response' = NoResponse
    /\ handlerRan' = ""
    /\ UNCHANGED <<express, arg, environ, bots, appPc, routes, appError, restServer>>

\* the first app.post(bot.path, ...) of addRoutesForBot
AuthMiddleware ==
    /\ reqPc = "auth"
    /\ LET bot == bots[request.bot]
           auth == extractAuthorization(request.authorization)
       IN IF bot.accessKey = <<>>
          THEN reqPc' = "dispatch" /\ UNCHANGED <<response, handlerRan>>
          ELSE IF auth.thrown # NoException
          THEN RouteThrows(auth.thrown)
          ELSE IF auth.scheme # <<"Bearer">> \/ auth.credentials # bot.accessKey
          THEN RouteThrows(HTTPException(401, "Invalid access key", {"WWW-Authenticate: Bearer"}))
          ELSE reqPc' = "dispatch" /\ UNCHANGED <<response, handlerRan>>
    /\ UNCHANGED <<express, arg, environ, bots, appPc, routes, appError, request, restServer>>

\* the second app.post(bot.path, ...): the handler of the request type
DispatchPost ==
    /\ reqPc = "dispatch"
    /\ IF request.type \in HandledTypes
       THEN /\ handlerRan' = request.type
            /\ response' = Response(200, request.type, {})
            /\ reqPc' = "responded"
       ELSE RouteThrows(HTTPException(501, "Unsupported request type", {}))
    /\ UNCHANGED <<express, arg, environ, bots, appPc, routes, appError, request, restServer>>

NextServer ==
    \/ ResolveKeys
    \/ CheckPaths
    \/ CheckKeys
    \/ AddRoutes
    \/ ReceivePost
    \/ AuthMiddleware
    \/ DispatchPost

SpecServer == InitServer /\ [][NextServer]_vars

\* ------------------------------------------------------- streaming driver
\* most events the handler's iterator yields
MaxData == 2

\* the timeout record of writeTimeout
TimeoutRecord == [event |-> "error", text |-> "error sse write timeout", allow_retry |-> FALSE]

\* the record of a handler event
DataRecord == [event |-> "text", text |-> "event", allow_retry |-> TRUE]

\* the record of PoeBot.doneEvent(): data '{}' carries neither field
DoneRecord == [event |-> "done", text |-> "", allow_retry |-> TRUE]

\* what bodyIterator can yield next: handleQuery relays the events of the
\* bot's handler and ends with its done event
Yieldable == IF content = "handleQuery" THEN {DataRecord, DoneRecord} ELSE {DataRecord}

\* handleRequest has started its tasks: streamResponse has set status and
\* headers and waits for the first event, ping sleeps, the SIGTERM handler is
\* installed, dataSenderCallable (if given) runs, handleRequest awaits the race.
InitDriver ==
    /\ sendTimeout \in BOOLEAN
    /\ content \in {"handleQuery", "iterable"}
    /\ iterDone = FALSE
    /\ peerClosed = FALSE
    /\ active = TRUE
    /\ interrupted = FALSE
    /\ timer = "off"
    /\ srPc = "loop"
    /\ pingPc = "sleeping"
    /\ senderPc \in {"none", "running"}
    /\ closeEmitted = FALSE
    /\ race = "pending"
    /\ hrPc = "racing"
    /\ emitted = 0
    /\ written = <<>>
    /\ last = ""
    /\ heartbeat = FALSE
    /\ ends = 0
    /\ ClientIdle
    /\ StreamIdle
    /\ ToolsIdle
    /\ ServerIdle
    /\ QueryIdle
    /\ CodecIdle
    /\ CtorIdle
    /\ KeysIdle
    /\ CallerIdle
    /\ ErrorsIdle

\* a task of Promise.race(tasks) settles: the first one settles the race
Settle(outcome) == race' = IF race = "pending" THEN outcome ELSE race

\* streamResponse after the for-await loop
AfterLoop ==
    /\ srPc' = "resolved"
    /\ Settle("resolved")
    /\ IF active
       THEN /\ active' = FALSE
            /\ ends' = ends + 1
            /\ IF interrupted
               THEN written' = Append(written, TimeoutRecord) /\ last' = "timeout"
               ELSE UNCHANGED <<written, last>>
            /\ timer' = IF timer = "armed" THEN "off" ELSE timer
       ELSE UNCHANGED <<active, ends, written, last, timer>>

\* bodyIterator yields an event: one turn of the for-await loop.  An event
\* that encodeServerSentEvent refuses (retry not a number, data not a string)
\* makes it throw, after the timer was set.
HandlerYields ==
    /\ srPc = "loop"
    /\ ~iterDone
    /\ \E record \in Yieldable :
         /\ record = DataRecord => emitted < MaxData
         /\ emitted' = IF record = DataRecord THEN emitted + 1 ELSE emitted
         /\ iterDone' = (record = DoneRecord)
         /\ IF interrupted \/ ~active
            THEN AfterLoop
            ELSE \E encodes \in IF record = DoneRecord THEN {TRUE} ELSE BOOLEAN :
                 /\ timer' = IF sendTimeout THEN "armed" ELSE timer
                 /\ IF encodes
                    THEN /\ written' = Append(written, record)
                         /\ last' = IF record = DoneRecord THEN "done" ELSE "data"
                         /\ UNCHANGED <<srPc, race>>
                    ELSE /\ srPc' = "rejected"
                         /\ Settle("rejected")
                         /\ UNCHANGED <<written, last>>
                 /\ UNCHANGED <<active, ends>>
    /\ UNCHANGED <<sendTimeout, content, peerClosed, interrupted, pingPc, senderPc,
                   closeEmitted, hrPc, heartbeat, restDriver>>

\* bodyIterator is exhausted: handleQuery returns after its done event
HandlerReturns ==
    /\ srPc = "loop"
    /\ content = "handleQuery" => iterDone
    /\ AfterLoop
    /\ UNCHANGED <<sendTimeout, content, iterDone, peerClosed,
                   interrupted, pingPc, senderPc, closeEmitted, hrPc, emitted,
                   heartbeat, restDriver>>

\* bodyIterator throws: handleQuery catches what the bot's handler throws,
\* any other iterable may throw
HandlerThrows ==
    /\ srPc = "loop"
    /\ content = "iterable"
    /\ srPc' = "rejected"
    /\ Settle("rejected")
    /\ UNCHANGED <<sendTimeout, content, iterDone, peerClosed,
                   active, interrupted, timer, pingPc, senderPc, closeEmitted,
                   hrPc, emitted, written, last, heartbeat, ends, restDriver>>

\* setTimeout(() => { interrupted = true }, this.sendTimeout) fires
TimerFires ==
    /\ timer = "armed"
    /\ timer' = "fired"
    /\ interrupted' = TRUE
    /\ UNCHANGED <<sendTimeout, content, iterDone, peerClosed,
                   active, srPc, pingPc, senderPc, closeEmitted, race, hrPc,
                   emitted, written, last, heartbeat, ends, restDriver>>

\* ping without the test of this.active after the sleep
PingWakes_Always ==
    /\ pingPc = "sleeping"
    /\ last' = "ping"
    /\ heartbeat' = ~heartbeat
    /\ UNCHANGED <<pingPc, race>>
    /\ UNCHANGED <<sendTimeout, content, iterDone, peerClosed,
                   active, interrupted, timer, srPc, senderPc, closeEmitted,
                   hrPc, emitted, written, ends, restDriver>>

\* ping: the sleep of pingInterval seconds is over
PingWakes ==
    /\ pingPc = "sleeping"
    /\ IF active
       THEN /\ last' = "ping"
            /\ heartbeat' = ~heartbeat
            /\ UNCHANGED <<pingPc, race>>
       ELSE /\ pingPc' = "resolved"
            /\ Settle("resolved")
            /\ UNCHANGED <<last, heartbeat>>
    /\ UNCHANGED <<sendTimeout, content, iterDone, peerClosed,
                   active, interrupted, timer, srPc, senderPc, closeEmitted,
                   hrPc, emitted, written, ends, restDriver>>

\* the process gets SIGTERM while the handler is installed: events.emit('close')
Sigterm ==
    /\ hrPc = "racing"
    /\ ~closeEmitted
    /\ closeEmitted' = TRUE
    /\ Settle("resolved")
    /\ UNCHANGED <<sendTimeout, content, iterDone, peerClosed,
                   active, interrupted, timer, srPc, pingPc, senderPc, hrPc,
                   emitted, written, last, heartbeat, ends, restDriver>>

\* the peer goes away and the request emits 'close': the listener logs it
\* (events.emit('close') is commented out)
PeerCloses ==
    /\ ~peerClosed
    /\ peerClosed' = TRUE
    /\ UNCHANGED <<sendTimeout, content, iterDone, active, interrupted, timer, srPc, pingPc,
                   senderPc, closeEmitted, race, hrPc, emitted, written, last, heartbeat,
                   ends, restDriver>>

\* the promise of dataSenderCallable() settles
SenderSettles ==
    /\ senderPc = "running"
    /\ \E outcome \in {"resolved", "rejected"} :
         /\ senderPc' = outcome
         /\ Settle(outcome)
    /\ UNCHANGED <<sendTimeout, content, iterDone, peerClosed,
                   active, interrupted, timer, srPc, pingPc, closeEmitted, hrPc,
                   emitted, written, last, heartbeat, ends, restDriver>>

\* handleRequest after `await Promise.race(tasks)`
HandleRequestResumes ==
    /\ hrPc = "racing"
    /\ race # "pending"
    /\ IF race = "rejected"
       THEN /\ hrPc' = "thrown"
            /\ UNCHANGED <<active, written, last, ends>>
       ELSE /\ hrPc' = "returned"
            /\ IF active
               THEN /\ active' = FALSE
                    /\ written' = Append(written, TimeoutRecord)
                    /\ last' = "timeout"
                    /\ ends' = ends + 1
               ELSE UNCHANGED <<active, written, last, ends>>
    /\ UNCHANGED <<sendTimeout, content, iterDone, peerClosed,
                   interrupted, timer, srPc, pingPc, senderPc, closeEmitted, race,
                   emitted, heartbeat, restDriver>>

NextDriver ==
    \/ HandlerYields
    \/ HandlerReturns
    \/ HandlerThrows
    \/ TimerFires
    \/ PingWakes
    \/ Sigterm
    \/ PeerCloses
    \/ SenderSettles
    \/ HandleRequestResumes

SpecDriver == InitDriver /\ [][NextDriver]_vars

\* The event loop runs a timer that is due and a continuation that is ready;
\* nothing makes the handler yield, return or throw.
DriverFairness ==
    /\ WF_vars(TimerFires)
    /\ WF_vars(PingWakes)
    /\ WF_vars(HandleRequestResumes)

SpecDriverFair == InitDriver /\ [][NextDriver]_vars /\ DriverFairness

\* --------------------------------------------------------- handleQuery
\* most messages the bot's handler yields
MaxRelayed == 2

\* most uploads the handler starts with postMessageAttachment
MaxUploads == 2

\* an event handleQuery yields; a field the event's data does not carry holds
\* what the client takes for it (no text: "", allow_retry: true)
ServerEvent(event, text, allowRetry) ==
    [event |-> event, text |-> text, allow_retry |-> allowRetry]

textEvent(text) == ServerEvent("text", text, TRUE)

replaceResponseEvent(text) == ServerEvent("replace_response", text, TRUE)

suggestedReplyEvent(text) == ServerEvent("suggested_reply", text, TRUE)

\* if (text) data.text = text: an empty text leaves the field out
errorEvent(text, allowRetry) == ServerEvent("error", text, allowRetry)

\* what the handler yields: partial responses, error responses and events
\* of its own making (here a json event)
HandlerMessage(kind, text, allowRetry, isSuggestedReply, isReplaceResponse) ==
    [kind |-> kind, text |-> text, allowRetry |-> allowRetry,
     isSuggestedReply |-> isSuggestedReply, isReplaceResponse |-> isReplaceResponse]

HandlerMessages ==
    { HandlerMessage("partial", "A", TRUE, FALSE, FALSE),
      HandlerMessage("partial", "B", TRUE, FALSE, TRUE),
      HandlerMessage("partial", "A", TRUE, TRUE, FALSE),
      HandlerMessage("error", "E", TRUE, FALSE, FALSE),
      HandlerMessage("event", "J", TRUE, FALSE, FALSE) }

\* the body of the for-await loop of handleQuery: the event a message becomes
Relay(m) ==
    IF m.kind = "event" THEN ServerEvent("json", m.text, TRUE)
    ELSE IF m.kind = "error" THEN errorEvent(m.text, m.allowRetry)
    ELSE IF m.isSuggestedReply THEN suggestedReplyEvent(m.text)
    ELSE IF m.isReplaceResponse THEN replaceResponseEvent(m.text)
    ELSE textEvent(m.text)

\* the message of a failed upload
UploadFailed == "upload failed"

\* the message of any other exception of the handler
HandlerFailed == "boom"

Upload(state, tracked) == [state |-> state, tracked |-> tracked]

RECURSIVE Without(_, _)
\* array.splice(array.findIndex(item => item === task), 1)
Without(array, task) ==
    IF array = <<>> THEN <<>>
    ELSE IF Head(array) = task THEN Tail(array)
    ELSE <<Head(array)>> \o Without(Tail(array), task)

\* handleQuery has been called for a query and its handler runs; the table
\* holds nothing for the message id.
InitQuery ==
    /\ qpc = "handler"
    /\ awaiting = 0
    /\ uploads = <<>>
    /\ pendingFileAttachmentTasks = NoEntry
    /\ snapshot = <<>>
    /\ qout = <<>>
    /\ relayed = 0
    /\ handlerError = ""
    /\ ClientIdle
    /\ StreamIdle
    /\ ToolsIdle
    /\ ServerIdle
    /\ DriverIdle
    /\ CodecIdle
    /\ CtorIdle
    /\ KeysIdle
    /\ CallerIdle
    /\ ErrorsIdle

\* the handler yields a message and handleQuery yields the event it becomes
HandlerYieldsMessage ==
    /\ qpc = "handler"
    /\ awaiting = 0
    /\ Len(qout) < MaxRelayed
    /\ \E m \in HandlerMessages : qout' = Append(qout, Relay(m))
    /\ UNCHANGED <<qpc, awaiting, uploads, pendingFileAttachmentTasks, snapshot, relayed,
                   handlerError, restQuery>>

\* the handler calls postMessageAttachment, awaiting the result or not: the
\* task is made and put into the table; `tracked` is whether the call found an
\* array there (pendingTasksForMessage is read before the array is created)
PostMessageAttachment ==
    /\ qpc = "handler"
    /\ awaiting = 0
    /\ Len(uploads) < MaxUploads
    /\ uploads' = Append(uploads, Upload("pending", pendingFileAttachmentTasks.present))
    /\ pendingFileAttachmentTasks' =
         [present |-> TRUE,
          tasks |-> Append(pendingFileAttachmentTasks.tasks, Len(uploads) + 1)]
    /\ \E awaited \in BOOLEAN : awaiting' = IF awaited THEN Len(uploads) + 1 ELSE 0
    /\ UNCHANGED <<qpc, snapshot, qout, relayed, handlerError, restQuery>>

\* catch (error) { yield PoeBot.errorEvent(error.message, { allowRetry: false }) }
\* of the first try block
CatchHandler(message) ==
    /\ qout' = Append(qout, errorEvent(message, FALSE))
    /\ relayed' = Len(qout)
    /\ handlerError' = message
    /\ qpc' = "drain"

\* an upload settles: the finally block of postMessageAttachment takes the
\* task out of the array the call had found, if it had found one; a handler
\* that awaits the upload goes on, or gets the exception and catches it or not
UploadSettles ==
    \E id \in 1..Len(uploads) : \E ok \in BOOLEAN :
        /\ uploads[id].state = "pending"
        /\ uploads' = [uploads EXCEPT ![id].state = IF ok THEN "fulfilled" ELSE "rejected"]
        /\ pendingFileAttachmentTasks' =
             IF uploads[id].tracked /\ pendingFileAttachmentTasks.present
             THEN [pendingFileAttachmentTasks EXCEPT !.tasks = Without(@, id)]
             ELSE pendingFileAttachmentTasks
        /\ IF awaiting = id
           THEN /\ awaiting' = 0
                /\ IF ok
                   THEN UNCHANGED <<qpc, qout, relayed, handlerError>>
                   ELSE \E catches \in BOOLEAN :
                          IF catches
                          THEN UNCHANGED <<qpc, qout, relayed, handlerError>>
                          ELSE CatchHandler(UploadFailed)
           ELSE UNCHANGED <<qpc, awaiting, qout, relayed, handlerError>>
        /\ UNCHANGED <<snapshot, restQuery>>

\* the handler's iterator is exhausted
HandlerEnds ==
    /\ qpc = "handler"
    /\ awaiting = 0
    /\ qpc' = "drain"
    /\ relayed' = Len(qout)
    /\ UNCHANGED <<awaiting, uploads, pendingFileAttachmentTasks, snapshot, qout,
                   handlerError, restQuery>>

\* the handler throws
HandlerFails ==
    /\ qpc = "handler"
    /\ awaiting = 0
    /\ CatchHandler(HandlerFailed)
    /\ UNCHANGED <<awaiting, uploads, pendingFileAttachmentTasks, snapshot, restQuery>>

\* processPendingAttachmentRequests up to its await: Promise.all takes the
\* tasks that are in the array now
DrainStarts ==
    /\ qpc = "drain"
    /\ IF pendingFileAttachmentTasks.present
       THEN qpc' = "draining" /\ snapshot' = pendingFileAttachmentTasks.tasks
       ELSE qpc' = "done" /\ UNCHANGED snapshot
    /\ UNCHANGED <<awaiting, uploads, pendingFileAttachmentTasks, qout, relayed, handlerError,
                   restQuery>>

AnyRejected == \E k \in 1..Len(snapshot) : uploads[snapshot[k]].state = "rejected"

AllFulfilled == \A k \in 1..Len(snapshot) : uploads[snapshot[k]].state = "fulfilled"

\* yield PoeBot.errorEvent(error.message, { allowRetry: false }) of the second
\* try block
CatchDrain(events) == Append(events, errorEvent(UploadFailed, FALSE))

\* Promise.all settles: fulfilled, the entry is deleted; rejected, the
\* exception skips the delete and handleQuery yields an error event
DrainSettles ==
    /\ qpc = "draining"
    /\ \/ /\ AnyRejected
          /\ qout' = CatchDrain(qout)
          /\ UNCHANGED pendingFileAttachmentTasks
       \/ /\ AllFulfilled
          /\ pendingFileAttachmentTasks' = NoEntry
          /\ UNCHANGED qout
    /\ qpc' = "done"
    /\ UNCHANGED <<awaiting, uploads, snapshot, relayed, handlerError, restQuery>>

\* yield PoeBot.doneEvent()
YieldDone_Twice(events) == events \o <<DoneRecord, DoneRecord>>

YieldDone(events) == Append(events, DoneRecord)

Finish ==
    /\ qpc = "done"
    /\ qout' = YieldDone(qout)
    /\ qpc' = "finished"
    /\ UNCHANGED <<awaiting, uploads, pendingFileAttachmentTasks, snapshot, relayed,
                   handlerError, restQuery>>

NextQuery ==
    \/ HandlerYieldsMessage
    \/ PostMessageAttachment
    \/ UploadSettles
    \/ HandlerEnds
    \/ HandlerFails
    \/ DrainStarts
    \/ DrainSettles
    \/ Finish

SpecQuery == InitQuery /\ [][NextQuery]_vars

\* ---------------------------------------------------- event stream codec
\* most records the server encodes into one stream
MaxRecords == 2

\* Text is a sequence of characters; "CR" and "LF" are \r and \n.
Seps == {"CRLF", "CR", "LF"}

SepText(s) == CASE s = "CRLF" -> <<"CR", "LF">> [] s = "CR" -> <<"CR">> [] OTHER -> <<"LF">>

\* a field of a ServerSentEvent that is undefined
NoField == <<"undefined">>

Sse(id, event, data, retry) == [id |-> id, event |-> event, data |-> data, retry |-> retry]

Record(sse, comment) == [sse |-> sse, comment |-> comment]

\* the arguments of the calls of encodeServerSentEvent: events as the bot
\* protocol has them, with an id and a retry, without an event name, with
\* line terminators in id and event, with data of two lines, and a heartbeat
RecordInputs ==
    { Record(Sse(NoField, <<"t">>, <<"x">>, Undefined), <<>>),
      Record(Sse(<<"1">>, <<"t">>, <<"x">>, 5), <<>>),
      Record(Sse(NoField, NoField, <<"x">>, Undefined), <<>>),
      Record(Sse(<<"LF", "1", "LF">>, <<"CR", "LF", "t", "CR">>, <<"x">>, Undefined), <<>>),
      Record(Sse(NoField, <<"t">>, <<"x", "LF", "y">>, Undefined), <<>>),
      Record(Sse(NoField, NoField, NoField, Undefined), <<"p">>) }

RECURSIVE search(_)
\* where LINE_SEP_EXPR = /\r\n|\r|\n/ first matches in a text (0: nowhere)
search(text) ==
    IF text = <<>> THEN 0
    ELSE IF Head(text) \in {"CR", "LF"} THEN 1
    ELSE LET k == search(Tail(text)) IN IF k = 0 THEN 0 ELSE k + 1

\* the length of the match at k: the alternative \r\n is tried first
MatchLen(text, k) ==
    IF text[k] = "CR" /\ k < Len(text) /\ text[k + 1] = "LF" THEN 2 ELSE 1

\* text.replace(LINE_SEP_EXPR, ''): the expression has no g flag, so the
\* first match is taken out and the rest stays
replace(text) ==
    LET k == search(text)
    IN  IF k = 0 THEN text
        ELSE SubSeq(text, 1, k - 1) \o SubSeq(text, k + MatchLen(text, k), Len(text))

RECURSIVE splitLines(_)
\* text.split(LINE_SEP_EXPR)
splitLines(text) ==
    LET k == search(text)
    IN  IF k = 0 THEN <<text>>
        ELSE <<SubSeq(text, 1, k - 1)>>
             \o splitLines(SubSeq(text, k + MatchLen(text, k), Len(text)))

Digit == <<"0", "1", "2", "3", "4", "5", "6", "7", "8", "9">>

\* `${sse.retry}` for a number of one digit
NumberText(n) == <<Digit[n + 1]>>

\* parseInt(value) for a number of one digit (Undefined: NaN)
parseInt(value) ==
    IF value # <<>> /\ \E n \in 0..9 : Digit[n + 1] = Head(value)
    THEN CHOOSE n \in 0..9 : Digit[n + 1] = Head(value)
    ELSE Undefined

Prefixed(prefix, parts) == [k \in 1..Len(parts) |-> prefix \o parts[k]]

\* the lines encodeServerSentEvent puts out, each one before its separator
Lines(sse, comment) ==
       (IF comment # <<>> THEN Prefixed(<<":", " ">>, splitLines(comment)) ELSE <<>>)
    \o (IF sse.id # NoField THEN << <<"id", ":", " ">> \o replace(sse.id) >> ELSE <<>>)
    \o (IF sse.event # NoField THEN << <<"event", ":", " ">> \o replace(sse.event) >> ELSE <<>>)
    \o (IF sse.data # NoField THEN Prefixed(<<"data", ":", " ">>, splitLines(sse.data)) ELSE <<>>)
    \o (IF sse.retry # Undefined THEN << <<"retry", ":", " ">> \o NumberText(sse.retry) >> ELSE <<>>)

RECURSIVE Terminated(_, _)
Terminated(lines, sp) ==
    IF lines = <<>> THEN <<>> ELSE Head(lines) \o sp \o Terminated(Tail(lines), sp)

encodeServerSentEvent(sse, comment, sp) == Terminated(Lines(sse, comment), sp) \o sp

\* new SSEDecoder(); retry null is Undefined
NewDecoder == [event |-> <<>>, data |-> <<>>, lastEventId |-> <<>>, retry |-> Undefined]

RECURSIVE indexOf(_, _)
\* text.indexOf(c), counted from 1 (0: not there)
indexOf(text, c) ==
    IF text = <<>> THEN 0
    ELSE IF Head(text) = c THEN 1
    ELSE LET k == indexOf(Tail(text), c) IN IF k = 0 THEN 0 ELSE k + 1

extractFieldAndValue(line) ==
    LET index == indexOf(line, ":")
    IN  IF index = 0 THEN <<line, <<>>>>
        ELSE LET value == SubSeq(line, index + 1, Len(line))
             IN  <<SubSeq(line, 1, index - 1),
                   IF value # <<>> /\ Head(value) = " " THEN Tail(value) ELSE value>>

RECURSIVE join(_)
\* this.data.join('\n')
join(data) ==
    IF data = <<>> THEN <<>>
    ELSE IF Len(data) = 1 THEN data[1]
    ELSE data[1] \o <<"LF">> \o join(Tail(data))

Decoded(d, yields) == [decoder |-> d, yields |-> yields]

\* the test of decode on an empty line: nothing to dispatch
NothingToDispatch(d) ==
    d.event = <<>> /\ d.data = <<>> /\ d.lastEventId = <<>> /\ d.retry = Undefined

\* SSEDecoder.decode(line): the decoder after the line and the event it
\* returns, if any.  this.event is a string, so `this.event ?? 'message'` is
\* this.event.
decode(d, line) ==
    IF line = <<>>
    THEN IF NothingToDispatch(d)
         THEN Decoded(d, <<>>)
         ELSE Decoded([d EXCEPT !.event = <<>>, !.data = <<>>, !.retry = Undefined],
                      <<Sse(d.lastEventId, d.event, join(d.data), d.retry)>>)
    ELSE IF Head(line) = ":"
    THEN Decoded(d, <<>>)
    ELSE LET fieldname == extractFieldAndValue(line)[1]
             value == extractFieldAndValue(line)[2]
         IN  CASE fieldname = <<"event">> -> Decoded([d EXCEPT !.event = value], <<>>)
               [] fieldname = <<"data">> ->
                    Decoded([d EXCEPT !.data = Append(@, value)], <<>>)
               [] fieldname = <<"id">> ->
                    Decoded(IF indexOf(value, "NUL") = 0
                            THEN [d EXCEPT !.lastEventId = value] ELSE d, <<>>)
               [] fieldname = <<"retry">> ->
                    Decoded(IF parseInt(value) # Undefined
                            THEN [d EXCEPT !.retry = parseInt(value)] ELSE d, <<>>)
               [] OTHER -> Decoded(d, <<>>)

Whitespace == {" ", "CR", "LF"}

RECURSIVE trimStart(_)
trimStart(text) ==
    IF text # <<>> /\ Head(text) \in Whitespace THEN trimStart(Tail(text)) ELSE text

RECURSIVE trimEnd(_)
trimEnd(text) ==
    IF text # <<>> /\ text[Len(text)] \in Whitespace
    THEN trimEnd(SubSeq(text, 1, Len(text) - 1)) ELSE text

\* String.prototype.trim
trim(text) == trimEnd(trimStart(text))

\* The server is about to encode its records with one separator; the client
\* has made its EventSource and a new decoder, and its buffer is empty.
InitCodec ==
    /\ sep \in Seps
    /\ records \in UNION { [1..n -> RecordInputs] : n \in 1..MaxRecords }
    /\ sent = 0
    /\ inflight = <<>>
    /\ buffer = <<>>
    /\ decoder = NewDecoder
    /\ fieldSeen = FALSE
    /\ sses = <<>>
    /\ cpc = "open"
    /\ ClientIdle
    /\ StreamIdle
    /\ ToolsIdle
    /\ ServerIdle
    /\ DriverIdle
    /\ QueryIdle
    /\ CtorIdle
    /\ KeysIdle
    /\ CallerIdle
    /\ ErrorsIdle

\* res.write(encodeServerSentEvent(...)) of the next record
ServerWrites ==
    /\ cpc = "open"
    /\ sent < Len(records)
    /\ inflight' = inflight \o encodeServerSentEvent(records[sent + 1].sse,
                                                     records[sent + 1].comment, SepText(sep))
    /\ sent' = sent + 1
    /\ UNCHANGED <<sep, records, buffer, decoder, fieldSeen, sses, cpc, restCodec>>

\* the for-await loop of iterSSE takes the next chunk of the response, of any
\* size, when the buffer holds no further line
ChunkArrives ==
    /\ cpc = "open"
    /\ indexOf(buffer, "LF") = 0
    /\ \E n \in 1..Len(inflight) :
         /\ buffer' = buffer \o SubSeq(inflight, 1, n)
         /\ inflight' = SubSeq(inflight, n + 1, Len(inflight))
    /\ UNCHANGED <<sep, records, sent, decoder, fieldSeen, sses, cpc, restCodec>>

\* the line the while loop of iterSSE takes next from the buffer, trimmed
NextLineOf(text) == trim(SubSeq(text, 1, indexOf(text, "LF") - 1))

\* one turn of the while loop of iterSSE: the text before the first \n is
\* cut off the buffer, trimmed and decoded
NextLine ==
    /\ cpc = "open"
    /\ indexOf(buffer, "LF") # 0
    /\ buffer' = SubSeq(buffer, indexOf(buffer, "LF") + 1, Len(buffer))
    /\ decoder' = decode(decoder, NextLineOf(buffer)).decoder
    /\ sses' = sses \o decode(decoder, NextLineOf(buffer)).yields
    /\ fieldSeen' = IF NextLineOf(buffer) = <<>> THEN FALSE
                    ELSE IF Head(NextLineOf(buffer)) = ":" THEN fieldSeen
                    ELSE TRUE
    /\ UNCHANGED <<sep, records, sent, inflight, cpc, restCodec>>

\* the response ends: what is left in the buffer is dropped
StreamEnds ==
    /\ cpc = "open"
    /\ sent = Len(records)
    /\ inflight = <<>>
    /\ indexOf(buffer, "LF") = 0
    /\ cpc' = "ended"
    /\ UNCHANGED <<sep, records, sent, inflight, buffer, decoder, fieldSeen, sses, restCodec>>

NextCodec ==
    \/ ServerWrites
    \/ ChunkArrives
    \/ NextLine
    \/ StreamEnds

SpecCodec == InitCodec /\ [][NextCodec]_vars

\* ============================================ the separator of the driver
\* How many chunks one response writes.
MaxWrites == 2

\* ['\\r\\n', '\\r', '\\n'] of the constructor: the strings of a backslash
\* and a letter, as the source text escapes them
AcceptedSeps == { <<"\\", "r", "\\", "n">>, <<"\\", "r">>, <<"\\", "n">> }

\* the line terminators \r\n, \r and \n
Terminators == { SepText(s) : s \in Seps }

\* ExpressEventSourceResponse.DEFAULT_SEPARATOR = '\r\n'
DEFAULT_SEPARATOR == <<"CR", "LF">>

\* the values of options.sep: left out, a terminator, an escaped spelling of
\* one, and another text
SepOptions == Terminators \cup AcceptedSeps \cup {NoField, <<";">>}

\* the events the body iterator yields
BodyEvents == { r.sse : r \in { q \in RecordInputs : q.comment = <<>> } }

\* the event of writeTimeout
TimeoutSse == Sse(NoField, <<"e">>, <<"T">>, Undefined)

\* the event a pingMessageFactory makes
FactoryPing == Sse(NoField, <<"p">>, NoField, Undefined)

\* {} of the default ping
EmptySse == Sse(NoField, NoField, NoField, Undefined)

Written(sse, comment, chunk) == [sse |-> sse, comment |-> comment, chunk |-> chunk]

InitSep ==
    /\ optionsSep \in SepOptions
    /\ pingMessageFactory \in BOOLEAN
    /\ thisSep = <<>>
    /\ ctor = "new"
    /\ resWrite = <<>>
    /\ ClientIdle
    /\ StreamIdle
    /\ ToolsIdle
    /\ ServerIdle
    /\ DriverIdle
    /\ QueryIdle
    /\ CodecIdle
    /\ KeysIdle
    /\ CallerIdle
    /\ ErrorsIdle

\* if (options.sep && ![...].includes(options.sep)) throw ...;
\* this.sep = options.sep || DEFAULT_SEPARATOR
Construct ==
    /\ ctor = "new"
    /\ IF optionsSep # NoField /\ optionsSep # <<>> /\ optionsSep \notin AcceptedSeps
       THEN ctor' = "InvalidParameterError" /\ UNCHANGED thisSep
       ELSE /\ ctor' = "built"
            /\ thisSep' = IF optionsSep # NoField /\ optionsSep # <<>>
                          THEN optionsSep ELSE DEFAULT_SEPARATOR
    /\ UNCHANGED <<optionsSep, pingMessageFactory, resWrite, restCtor>>

\* streamResponse: res.write(encodeServerSentEvent(data, '', this.sep))
StreamWrites ==
    /\ ctor = "built"
    /\ Len(resWrite) < MaxWrites
    /\ \E data \in BodyEvents :
         resWrite' = Append(resWrite,
                            Written(data, <<>>, encodeServerSentEvent(data, <<>>, thisSep)))
    /\ UNCHANGED <<optionsSep, pingMessageFactory, thisSep, ctor, restCtor>>

\* writeTimeout, and the res.end() that follows it
WriteTimeout ==
    /\ ctor = "built"
    /\ resWrite' = Append(resWrite,
                          Written(TimeoutSse, <<>>,
                                  encodeServerSentEvent(TimeoutSse, <<>>, thisSep)))
    /\ ctor' = "ended"
    /\ UNCHANGED <<optionsSep, pingMessageFactory, thisSep, restCtor>>

\* ping: encodeServerSentEvent(this.pingMessageFactory()) takes the default
\* separator of encodeServerSentEvent, the comment ping this.sep
Ping ==
    /\ ctor = "built"
    /\ Len(resWrite) < MaxWrites
    /\ resWrite' = Append(resWrite,
         IF pingMessageFactory
         THEN Written(FactoryPing, <<>>,
                      encodeServerSentEvent(FactoryPing, <<>>, <<"CR", "LF">>))
         ELSE Written(EmptySse, <<"p">>, encodeServerSentEvent(EmptySse, <<"p">>, thisSep)))
    /\ UNCHANGED <<optionsSep, pingMessageFactory, thisSep, ctor, restCtor>>

NextSep ==
    \/ Construct
    \/ StreamWrites
    \/ WriteTimeout
    \/ Ping

SpecSep == InitSep /\ [][NextSep]_vars

\* ======================================================= key normalisation
\* How long a key is at most, and how many calls are applied to an object.
MaxKeyLen == 3

MaxCalls == 2

\* the characters of a key: a lowercase and an uppercase letter, a digit and
\* the underscore; all of them match \w
KeyAlphabet == {"w", "W", "1", "_"}

\* c.toUpperCase()
ToUpperCase(c) == IF c = "w" THEN "W" ELSE c

\* (m) => m[1].toUpperCase() for the match m of /(_\w)/
Capital_Whole(m) == <<m[1], ToUpperCase(m[2])>>

Capital(m) == <<ToUpperCase(m[2])>>

RECURSIVE snakeToCamelCase(_)
\* str.replace(/(_\w)/g, (m) => m[1].toUpperCase()): the matches are taken
\* from left to right and do not overlap
snakeToCamelCase(str) ==
    IF str = <<>> THEN <<>>
    ELSE IF Head(str) = "_" /\ Len(str) >= 2 /\ str[2] \in KeyAlphabet
         THEN Capital(SubSeq(str, 1, 2)) \o snakeToCamelCase(SubSeq(str, 3, Len(str)))
         ELSE <<Head(str)>> \o snakeToCamelCase(Tail(str))

\* a value that is no object (a string, undefined or null), and an object of
\* one property
Prim(v) == [kind |-> "prim", val |-> v]

Object(key, val) == [kind |-> "object", key |-> key, val |-> val]

RECURSIVE modelDump(_, _)
modelDump(obj, deepDump) ==
    IF obj.kind = "prim"
    THEN IF obj.val \in {"null", "undefined"} THEN Prim("null") ELSE obj
    ELSE Object(camelToSnakeCase(obj.key),
                IF deepDump THEN modelDump(obj.val, deepDump) ELSE obj.val)

RECURSIVE parseObj(_)
parseObj(obj) ==
    IF obj.kind = "prim"
    THEN IF obj.val \in {"null", "undefined"} THEN Prim("null") ELSE obj
    ELSE Object(snakeToCamelCase(obj.key), parseObj(obj.val))

Keys == UNION { [1..n -> KeyAlphabet] : n \in 1..MaxKeyLen }

\* the values of a property: a string, undefined, and an object
PropertyValues == {Prim("s"), Prim("undefined"), Object(<<"w", "_", "w">>, Prim("s"))}

InitKeys ==
    /\ original \in { Object(key, val) : key \in Keys, val \in PropertyValues }
    /\ converted = original
    /\ applied = <<>>
    /\ ClientIdle
    /\ StreamIdle
    /\ ToolsIdle
    /\ ServerIdle
    /\ DriverIdle
    /\ QueryIdle
    /\ CodecIdle
    /\ CtorIdle
    /\ CallerIdle
    /\ ErrorsIdle

\* modelDump(obj): deepDump is left at its default
ModelDump ==
    /\ Len(applied) < MaxCalls
    /\ converted' = modelDump(converted, TRUE)
    /\ applied' = Append(applied, "modelDump")
    /\ UNCHANGED <<original, restKeys>>

ParseObj ==
    /\ Len(applied) < MaxCalls
    /\ converted' = parseObj(converted)
    /\ applied' = Append(applied, "parseObj")
    /\ UNCHANGED <<original, restKeys>>

NextKeys ==
    \/ ModelDump
    \/ ParseObj

SpecKeys == InitKeys /\ [][NextKeys]_vars

\* ================================================ error events end to end
\* the property names, character by character
KeyAllowRetry == <<"a", "l", "l", "o", "w", "R", "e", "t", "r", "y">>

Key_allow_retry == <<"a", "l", "l", "o", "w", "_", "r", "e", "t", "r", "y">>

KeyText == <<"t", "e", "x", "t">>

KeyErrorType == <<"e", "r", "r", "o", "r", "T", "y", "p", "e">>

\* Object.entries of an object of several properties, each dumped
DumpEntries(entries) == [k \in DOMAIN entries |-> modelDump(entries[k], TRUE)]

\* JSON.stringify of an object: a property whose value is undefined is left out
JSONstringify(entries) == SelectSeq(entries, LAMBDA e : e.val # Prim("undefined"))

\* PoeBot.errorEvent without modelDump
errorEventData_NoDump(text, options) ==
    JSONstringify(
        <<Object(KeyAllowRetry,
                 Prim(IF options.allowRetry = "undefined" THEN "true" ELSE options.allowRetry))>>
        \o (IF text # "" THEN <<Object(KeyText, Prim(text))>> ELSE <<>>)
        \o (IF options.errorType # "undefined"
            THEN <<Object(KeyErrorType, Prim(options.errorType))>> ELSE <<>>))

\* the data of PoeBot.errorEvent(text, options)
errorEventData(text, options) ==
    JSONstringify(DumpEntries(
        <<Object(KeyAllowRetry,
                 Prim(IF options.allowRetry = "undefined" THEN "true" ELSE options.allowRetry))>>
        \o (IF text # "" THEN <<Object(KeyText, Prim(text))>> ELSE <<>>)
        \o (IF options.errorType # "undefined"
            THEN <<Object(KeyErrorType, Prim(options.errorType))>> ELSE <<>>)))

\* JSON.stringify({ text: 'error sse write timeout', allow_retry: false })
TimeoutData ==
    JSONstringify(<<Object(KeyText, Prim("T")), Object(Key_allow_retry, Prim("false"))>>)

\* data[key] of the parsed object
Property(entries, key) ==
    IF \E k \in DOMAIN entries : entries[k].key = key
    THEN entries[CHOOSE k \in DOMAIN entries : entries[k].key = key].val.val
    ELSE "undefined"

\* a parsed value as the client's handlers take it
ToJ(v) ==
    CASE v = "undefined" -> JAbsent
      [] v = "null" -> JNull
      [] v = "true" -> JTrue
      [] v = "false" -> JFalse
      [] OTHER -> JStr(v)

\* JSON.parse(sse.data) as the error branch reads it
ClientData(entries) ==
    Data("object", ToJ(Property(entries, KeyText)), ToJ(Property(entries, Key_allow_retry)),
         JAbsent, JAbsent, JAbsent)

Source(kind, text, allowRetry, errorType) ==
    [kind |-> kind, text |-> text, allowRetry |-> allowRetry, errorType |-> errorType]

\* an ErrorResponse of the handler, an exception of the handler or of the
\* drain with its message, and the expiry of the send timeout
Sources ==
    { Source("ErrorResponse", t, ar, et) :
        t \in {"", "E"}, ar \in {"true", "false", "undefined"}, et \in {"undefined", "t"} }
    \cup { Source(k, t, "false", "undefined") :
             k \in {"handler exception", "drain exception"}, t \in {"", "E"} }
    \cup { Source("send timeout", "T", "false", "undefined") }

InitErrors ==
    /\ source \in Sources
    /\ sseData = <<>>
    /\ ClientIdle
    /\ StreamIdle
    /\ ToolsIdle
    /\ ServerIdle
    /\ DriverIdle
    /\ QueryIdle
    /\ CodecIdle
    /\ CtorIdle
    /\ KeysIdle
    /\ CallerIdle

\* handleQuery yields the error event, or writeTimeout writes its own
ServerProduces ==
    /\ sseData = <<>>
    /\ sseData' = IF source.kind = "send timeout" THEN TimeoutData
                  ELSE errorEventData(source.text, [allowRetry |-> source.allowRetry,
                                                    errorType |-> source.errorType])
    /\ UNCHANGED <<source, restErrors>>

\* the client gets the event; on a retry the server side answers the same
ClientHandlesError ==
    /\ sseData # <<>>
    /\ NextEvent
    /\ UNCHANGED sawDone
    /\ Iterate("event", SSE("error", ClientData(sseData)),
               onError(chunks, errorReported, ClientData(sseData), Answered))

NextErrors ==
    \/ ServerProduces
    \/ ClientHandlesError
    \/ Post
    \/ Wake

SpecErrors == InitErrors /\ [][NextErrors]_vars

\* ================================================================== claims
CommunicationError == BotError("Error communicating with bot")

\* the last step ended an attempt with exception e thrown by performQueryRequest
AttemptThrew == step.thrown # NoErr

ReportMessages == {step.reports[k].message : k \in DOMAIN step.reports}

\* Once an attempt raises BotErrorNoRetry the call ends with that very
\* exception; when it is the first attempt the call has made exactly one
\* attempt.
C1_NoRetryRaised ==
    step.thrown.name = "BotErrorNoRetry" =>
        /\ pc = "raised"
        /\ raised = step.thrown
        /\ (i = 0 => posts = 1)

\* C1: the state part above holds always, and after a BotErrorNoRetry no step
\* POSTs the query again.
C1_NoRetryNeverRetried ==
    /\ []C1_NoRetryRaised
    /\ [][step.thrown.name = "BotErrorNoRetry" => posts' = posts]_vars

C1_Witness ==
    /\ step.thrown.name = "BotErrorNoRetry"
    /\ optNumTries = 2
    /\ posts = 1
    /\ pc = "raised"

\* C2: one call POSTs the query at most numTries times (2 when the option is
\* left out), and exactly one retry sleep lies between two consecutive
\* attempts: k attempts started means k-1 sleeps, k once the next sleep began.
C2_AtMostNumTries ==
    /\ posts <= (IF optNumTries = Undefined THEN 2 ELSE optNumTries)
    /\ sleeps = IF posts > 0 /\ pc \in {"stream", "returned", "raised"}
                THEN posts - 1 ELSE posts

C2_Witness ==
    /\ posts = 2
    /\ sleeps = 1
    /\ pc = "stream"
    /\ optNumTries = Undefined

\* C3: an exception other than BotErrorNoRetry thrown after the attempt has
\* yielded a message ends the call with BotError, unless it is an axios error
\* with code ECONNABORTED, which is retried while attempts remain.
C3_NoRetryAfterResponse ==
    (AttemptThrew /\ ~(step.thrown.name = "BotErrorNoRetry") /\ attemptYields > 0) =>
        IF step.thrown.name = "AxiosError" /\ step.thrown.message = "ECONNABORTED"
           /\ i < numTries - 1
        THEN pc = "sleep"
        ELSE pc = "raised" /\ raised = CommunicationError

C3_Witness ==
    /\ step.thrown = AxiosError("ERR_BAD_RESPONSE", "stream")
    /\ attemptYields > 0
    /\ i < numTries - 1
    /\ pc = "raised"

\* the last step completed an attempt: done was processed or the stream ended,
\* and performQueryRequest returned
AttemptCompleted ==
    /\ step.op \in {"event", "end"}
    /\ step.thrown = NoErr
    /\ (step.op = "event" => step.ev.event = "done")

CallOutcomeAfterFailure ==
    /\ (pc = "returned" => AttemptCompleted)
    /\ (pc = "raised" =>
            \/ raised = CommunicationError
            \/ raised.name = "BotErrorNoRetry" /\ raised = step.thrown)

\* C4 as stated: a call none of whose attempts ran to completion never returns
\* normally; it raises the communication BotError or the attempt's
\* BotErrorNoRetry.
C4_NeverReturnsAfterFailure == CallOutcomeAfterFailure

\* C4 amended: the same for numTries >= 1.
C4_NeverReturnsAfterFailure_Amended == numTries >= 1 => CallOutcomeAfterFailure

C4_Witness ==
    /\ pc = "raised"
    /\ raised = CommunicationError
    /\ posts = 2
    /\ attemptYields = 0
    /\ ~gotResponse

\* C5: the error of a failed report_error POST is never what performQueryRequest
\* throws, so it neither replaces the outcome of the query nor reaches the
\* retry loop.
C5_ReportFailureNotRaised == step.thrown.origin # "report_error"

\* linkify and suggested_replies boolean, content_type a string, each may be absent
ValidMeta(data) ==
    /\ data.syntax = "object"
    /\ data.linkify.t \in {"undefined", "boolean"}
    /\ data.suggested_replies.t \in {"undefined", "boolean"}
    /\ data.content_type.t \in {"undefined", "string"}

\* C6: a meta event yields a MetaResponse only as the first event of its
\* stream; a later meta yields nothing, reports nothing and throws nothing;
\* a valid first meta is yielded.
C6_MetaOnlyFirst ==
    (step.op = "event" /\ step.ev.event = "meta") =>
        /\ (eventCount # 1 =>
                step.yielded = <<>> /\ step.reports = <<>> /\ step.thrown = NoErr)
        /\ (step.yielded # <<>> => eventCount = 1 /\ step.yielded[1].type = "meta")
        /\ ((eventCount = 1 /\ ValidMeta(step.ev.data)) =>
                Len(step.yielded) = 1 /\ step.yielded[1].type = "meta")

C6_Witness ==
    /\ step.op = "event"
    /\ step.ev.event = "meta"
    /\ ValidMeta(step.ev.data)
    /\ eventCount = 3
    /\ attemptYields = 2
    /\ Len(chunks) = 1
    /\ step.yielded = <<>>

\* C7: right after a replace_response event carrying the string X is
\* processed, chunks = <<X>>.
C7_ReplaceResetsChunks ==
    (/\ step.op = "event"
     /\ step.ev.event = "replace_response"
     /\ step.ev.data.syntax = "object"
     /\ step.ev.data.text.t = "string") =>
        chunks = <<step.ev.data.text.v>>

C7_Witness ==
    /\ step.op = "event"
    /\ step.ev = SSE("replace_response", DataText(JStr("B")))
    /\ eventCount = 3
    /\ attemptYields = 3
    /\ chunks = <<"B">>

\* C8: on done the report "Bot returned no text in response" is sent exactly
\* when no chunk was accumulated, no error was reported and tools is undefined,
\* in every case performQueryRequest then returns, and once done was processed
\* the stream is read no further.
C8_DoneReportsAndReturns ==
    /\ (step.op = "event" /\ step.ev.event = "done") =>
        /\ ("Bot returned no text in response" \in ReportMessages)
               <=> (Len(chunks) = 0 /\ ~errorReported /\ tools = JAbsent)
        /\ step.thrown = NoErr
        /\ pc = "returned"
    /\ sawDone => pc # "stream"

\* C9: a stream that closes without done sends the report "Bot exited
\* without sending 'done' event" once and performQueryRequest ends normally; after
\* a done event the report is not sent.
C9_MissingDoneReported ==
    /\ step.op = "end" =>
        /\ step.reports = <<Report("Bot exited without sending 'done' event", "end", "ok")>>
        /\ step.thrown = NoErr
        /\ pc = "returned"
    /\ "Bot exited without sending 'done' event" \in ReportMessages => ~sawDone

\* C10: an error event whose data is a JSON object throws BotError when
\* allow_retry is true or absent and BotErrorNoRetry when it is false, and the
\* attempt is over: no further event of that stream is processed.
C10_ErrorEventFails ==
    (step.op = "event" /\ step.ev.event = "error" /\ step.ev.data.syntax = "object") =>
        /\ (step.ev.data.allow_retry \in {JTrue, JAbsent} => step.thrown.name = "BotError")
        /\ (step.ev.data.allow_retry = JFalse => step.thrown.name = "BotErrorNoRetry")
        /\ pc \in {"sleep", "raised"}
        /\ step.yielded = <<>>

C10_Witness ==
    /\ step.op = "event"
    /\ step.ev = SSE("error", DataError(JFalse))
    /\ eventCount = 2
    /\ i < numTries - 1
    /\ raised.name = "BotErrorNoRetry"

\* ----------------------------------------------------------------- C11
\* the events of the wire that the loop has handled without raising
Handled ==
    SubSeq(wire, 1, IF pc = "raised" /\ step.op = "event" THEN eventCount - 1 ELSE eventCount)

ContentEvents == {"text", "replace_response", "suggested_reply", "json"}

\* the response a content event stands for
ResponseOf(sse) ==
    [type |-> sse.event,
     text |-> IF sse.event = "json" THEN "" ELSE sse.data.text.v,
     isSuggestedReply |-> sse.event = "suggested_reply",
     isReplaceResponse |-> sse.event = "replace_response"]

Brief(m) ==
    [type |-> m.type, text |-> m.text, isSuggestedReply |-> m.isSuggestedReply,
     isReplaceResponse |-> m.isReplaceResponse]

IsContentEvent(sse) == sse.event \in ContentEvents

IsPartialResponse(m) == m.type # "meta"

\* C11: within one attempt the PartialResponses yielded so far are, one for
\* one and in the same order, the responses of the text, replace_response,
\* suggested_reply and json events handled so far: none duplicated, dropped
\* or reordered.
C11_WireOrder ==
    LET events == SelectSeq(Handled, IsContentEvent)
        responses == SelectSeq(delivered, IsPartialResponse)
    IN /\ Len(responses) = Len(events)
       /\ \A k \in DOMAIN events : Brief(responses[k]) = ResponseOf(events[k])

\* three events handled, of which the first two are content events of
\* different kinds, and the attempt returned
C11_Witness ==
    /\ pc = "returned"
    /\ eventCount = 3
    /\ Len(delivered) = 2
    /\ delivered[1].type # delivered[2].type
    /\ delivered[1].text # delivered[2].text

\* ----------------------------------------------------------------- C12
IsDelta(m) == m.kind = "delta"

\* the tool-call deltas round 1 delivered, in arrival order
ArrivedDeltas == SelectSeq(arrived, IsDelta)

RECURSIVE ArgumentsOf(_, _)
\* the arguments fragments of the deltas of one index, joined in arrival order
ArgumentsOf(deltas, index) ==
    IF deltas = <<>> THEN <<>>
    ELSE (IF Head(deltas).index = index THEN Head(deltas).arguments ELSE <<>>)
         \o ArgumentsOf(Tail(deltas), index)

\* getToolCalls has returned its list
CallsReturned == tpc \in {"exec", "round2", "returned"} \/ tstep.op = "call" \/ round2.made

\* C12: whatever the arrival order of the round-1 deltas, getToolCalls returns
\* exactly one call per distinct index, in ascending index order, and the
\* arguments of each call are the fragments of the deltas of its index joined
\* in arrival order.
C12_CallsAggregated ==
    CallsReturned =>
        /\ {toolCalls[k].id : k \in DOMAIN toolCalls}
             = {ArrivedDeltas[k].index : k \in DOMAIN ArrivedDeltas}
        /\ \A j, k \in DOMAIN toolCalls : j < k => toolCalls[j].id < toolCalls[k].id
        /\ \A k \in DOMAIN toolCalls :
             /\ toolCalls[k].arguments = ArgumentsOf(ArrivedDeltas, toolCalls[k].id)
             /\ toolCalls[k].name = names[toolCalls[k].id]

\* deltas arrived with indices 1, 0, 1 and the two fragments of index 1 were
\* joined around the delta of index 0
C12_Witness ==
    /\ tpc = "exec"
    /\ Len(arrived) = 3
    /\ arrived[1].index = 1 /\ arrived[2].index = 0 /\ arrived[3].index = 1
    /\ arrived[1].arguments # arrived[3].arguments
    /\ Len(toolCalls) = 2
    /\ toolCalls[2].arguments = arrived[1].arguments \o arrived[3].arguments

\* ----------------------------------------------------------------- C13
\* C13: a tool call whose function.name matches no executable is skipped
\* silently whatever its arguments are: the step raises nothing, leaves no
\* tool result for the call and getToolResults goes on with the next call.
C13_UnmatchedSkipped ==
    (tstep.op = "call" /\ ~InExecutablesDict(tstep.call.name)) =>
        /\ tstep.thrown = NoErr
        /\ tpc = "exec"
        /\ \A k \in DOMAIN toolResults : toolResults[k].toolCallId # tstep.call.id

\* ----------------------------------------------------------------- C14
CountResults(items) == Len(SelectSeq(items, IsResult))

\* every executable that ran yielded exactly one AsyncResult
OneResultEach == \A j \in DOMAIN executed : CountResults(executed[j].items) = 1

RECURSIVE ResultIds(_)
\* the call id of each AsyncResult the executed calls yielded, in order
ResultIds(runs) ==
    IF runs = <<>> THEN <<>>
    ELSE [k \in 1..CountResults(Head(runs).items) |-> Head(runs).id] \o ResultIds(Tail(runs))

IsForwardedStatus(m) == m.type = "status"

\* C14: the round-2 query is made only after round 1 has ended and every
\* matched executable has run to completion; its tool_results are the results
\* of the executed calls in the order of the tool calls (ascending index), one
\* per executed call when each executable yields its one result; the messages
\* of round 2 reach the caller unchanged and in order.
C14_RoundTwoAfterTools ==
    /\ round2.made =>
         /\ tpc \in {"round2", "returned", "raised"}
         /\ callPos = Len(toolCalls)
         /\ round2.tool_calls = toolCalls
         /\ \A k \in DOMAIN toolCalls :
              (toolCalls[k].name \in {<<"a">>, <<"g", "_", "w">>}) =>
                  \E j \in DOMAIN executed : executed[j].id = toolCalls[k].id
         /\ \A j, k \in DOMAIN executed : j < k => executed[j].id < executed[k].id
         /\ [k \in DOMAIN round2.tool_results |-> round2.tool_results[k].toolCallId]
              = ResultIds(executed)
         /\ OneResultEach =>
              /\ Len(round2.tool_results) = Len(executed)
              /\ \A k \in DOMAIN executed :
                   round2.tool_results[k].toolCallId = executed[k].id
         /\ SelectSeq(upstream, IsForwardedStatus) \o r2yielded = upstream
    /\ ~round2.made => r2yielded = <<>>

\* two executables ran, one with a status message, round 2 was made with
\* their two results and its two messages were forwarded
C14_Witness ==
    /\ tpc = "returned"
    /\ OneResultEach
    /\ Len(round2.tool_results) = 2
    /\ Len(upstream) = 3
    /\ upstream[1].type = "status"
    /\ upstream[2] # upstream[3]
    /\ r2yielded = SubSeq(upstream, 2, 3)

\* ----------------------------------------------------------------- C15
\* the bot the request is for has an access key
KeyedBot == request # NoRequest /\ bots[request.bot].accessKey # <<>>

\* the request has gone through the routes as far as it ever will
Settled == reqPc \in {"responded", "hung"} /\ request.type # "malformed"

\* the header is Bearer followed by one token
BearerToken(token) == <<"Bearer", " ">> \o token

\* C15: for a bot with an access key, a POST without Authorization header is
\* answered 403 "Not authenticated" and a POST whose bearer token is not the
\* key is answered 401 "Invalid access key" with the header
\* WWW-Authenticate: Bearer; in both cases no bot handler runs.
C15_RejectedWithStatus ==
    (KeyedBot /\ Settled) =>
        /\ request.authorization = <<>> =>
             /\ response.status = 403
             /\ response.body = "Not authenticated"
             /\ handlerRan = ""
        /\ (\E token \in {<<"K">>, <<"s">>} :
               /\ token # bots[request.bot].accessKey
               /\ request.authorization = BearerToken(token)) =>
             /\ response.status = 401
             /\ response.body = "Invalid access key"
             /\ "WWW-Authenticate: Bearer" \in response.headers
             /\ handlerRan = ""

\* ----------------------------------------------------------------- C16
\* C16: for a bot with an access key a handler runs for a POST only if its
\* Authorization header is exactly "Bearer <access_key>"; with any other
\* header value no handler runs.
C16_ExactBearerOnly ==
    (KeyedBot /\ handlerRan # "") =>
        request.authorization = BearerToken(bots[request.bot].accessKey)

\* ----------------------------------------------------------------- C17
SamePath == \E j, k \in DOMAIN arg.bot : j < k /\ arg.bot[j].path = arg.bot[k].path

\* C17: given two bots with the same path makeApp fails with
\* InvalidParameter, and it has registered no route for any bot when it fails.
C17_SamePathFails ==
    /\ (SamePath /\ appPc \notin {"resolve", "paths"}) =>
         /\ appPc = "failed"
         /\ appError.name = "InvalidParameterError"
    /\ appPc = "failed" => routes = <<>>

\* makeApp failed on the path check itself
C17_Witness ==
    /\ SamePath
    /\ appPc = "failed"
    /\ appError = InvalidParameterError("Multiple bots are trying to use the same path")
    /\ routes = <<>>

\* ----------------------------------------------------------------- C18
\* a key that is set and is not 32 characters long
BadLength(key) == key # <<>> /\ StrLen(key) # 32

\* C18: once makeApp has returned, the access key of every bot it serves,
\* when present, is exactly 32 characters long: with a key of another length,
\* be it from the bot object, the accessKey or apiKey argument or the
\* environment, makeApp fails with InvalidParameter instead of serving.
C18_KeysAre32 ==
    /\ appPc = "serving" => \A k \in DOMAIN bots : ~BadLength(bots[k].accessKey)
    /\ appPc = "failed" => appError.name = "InvalidParameterError"

\* ----------------------------------------------------------------- C19
\* handleRequest and streamResponse have both come to their end
DriverOver == hrPc \in {"returned", "thrown"} /\ srPc \in {"resolved", "rejected"}

\* C19: in every run of the streaming driver the response is closed exactly
\* once: res.end is never called twice, and when the run is over it has been
\* called.
C19_ClosedExactlyOnce ==
    /\ ends <= 1
    /\ DriverOver => ends = 1

\* ----------------------------------------------------------------- C20
\* C20: once the send timer has expired on a stream that has not finished,
\* no handler event is written any more and the stream is eventually
\* terminated even if the handler yields nothing further: the timeout record
\* is the last record written and the response is closed.  (A run in which
\* streamResponse ends by an exception is let off here.)
C20_TimeoutTerminates ==
    /\ [][interrupted => (written' = written \/ written' = Append(written, TimeoutRecord))]_vars
    /\ []((interrupted /\ srPc = "loop" /\ ends = 0) =>
            <>((ends = 1 /\ last = "timeout") \/ srPc = "rejected"))
\* ----------------------------------------------------------------- C21
\* C21: once the request has emitted 'close' (the peer is gone) the driver
\* stops: it writes no further handler event, no done and no heartbeat, and
\* no exception comes out of handleRequest.
C21_PeerCloseStops ==
    [][peerClosed => /\ written' = written
                     /\ heartbeat' = heartbeat
                     /\ (hrPc # "thrown" => hrPc' # "thrown")]_vars
\* ----------------------------------------------------------------- C22
\* the events of handleQuery that are done events
Dones == { k \in 1..Len(qout) : qout[k].event = "done" }

C23_OneErrorThenDone ==
    (qpc = "finished" /\ handlerError # "") =>
        qout = SubSeq(qout, 1, relayed) \o <<errorEvent(handlerError, FALSE), DoneRecord>>

\* ----------------------------------------------------------------- C25
\* C25: once handleQuery has yielded done, the table of pending attachment
\* tasks holds no entry for the message id of the query.
C25_TableDrained == qpc = "finished" => ~pendingFileAttachmentTasks.present
\* ----------------------------------------------------------------- C24
\* C24: a query response stream (the iterator is handleQuery) that the server
\* has closed has done as its last event, however the driver came to close
\* it: handler completion, send timeout or termination signal.
C24_ClosedAfterDone ==
    (content = "handleQuery" /\ ends > 0) =>
        (written # <<>> /\ written[Len(written)] = DoneRecord)
\* ----------------------------------------------------------------- C26
\* what an event is to decode to: an absent event name is "message", an
\* absent retry stays unset, an absent id or data is empty
Expected(e) ==
    Sse(IF e.id = NoField THEN <<>> ELSE e.id,
        IF e.event = NoField THEN <<"message">> ELSE e.event,
        IF e.data = NoField THEN <<>> ELSE e.data,
        e.retry)

\* C26: a stream that is the encoding of one event, with any of the three
\* separators, is read by iterSSE as exactly one event, equal to the encoded
\* one (an absent event name read as "message").
C26_RoundTrip ==
    (cpc = "ended" /\ Len(records) = 1 /\ records[1].comment = <<>>) =>
        sses = <<Expected(records[1].sse)>>

\* ----------------------------------------------------------------- C27
\* C27: in the lines encodeServerSentEvent has put out, no id: or event: line
\* holds a \r or a \n, whatever terminators the id and the event name held.
C27_NamesOnOneLine ==
    \A k \in 1..sent :
        \A n \in 1..Len(Lines(records[k].sse, records[k].comment)) :
            LET line == Lines(records[k].sse, records[k].comment)[n]
            IN  Head(line) \in {"id", "event"} => search(line) = 0

\* ----------------------------------------------------------------- C28
\* C28: when the decoder is given the blank line that ends a record in which
\* no field line was seen (nothing, or comments only), iterSSE yields no
\* event, whatever came earlier in the stream.
C28_EmptyRecordSilent ==
    [][(cpc = "open" /\ indexOf(buffer, "LF") # 0 /\ NextLineOf(buffer) = <<>> /\ ~fieldSeen)
          => sses' = sses]_vars

\* ----------------------------------------------------------------- C29
RECURSIVE DecodeAll(_, _)
\* the events a decoder yields for a sequence of trimmed lines
DecodeAll(d, lines) ==
    IF lines = <<>> THEN <<>>
    ELSE decode(d, trim(Head(lines))).yields
         \o DecodeAll(decode(d, trim(Head(lines))).decoder, Tail(lines))

RECURSIVE RecordLines(_)
\* the lines of the records, each record ended by a blank line
RecordLines(rs) ==
    IF rs = <<>> THEN <<>>
    ELSE Lines(Head(rs).sse, Head(rs).comment) \o << <<>> >> \o RecordLines(Tail(rs))

\* no line of the records holds a terminator
OneLineEach == \A k \in 1..Len(RecordLines(records)) : search(RecordLines(records)[k]) = 0

\* C29: for records whose lines hold no terminator, iterSSE has yielded at the
\* end of the stream the events of the records' lines, whichever of the three
\* terminators ends the lines and however the stream came in chunks.
C29_AnyTerminator ==
    (cpc = "ended" /\ OneLineEach) => sses = DecodeAll(NewDecoder, RecordLines(records))
\* ----------------------------------------------------------------- C30
RECURSIVE SinceLastReplace(_)
\* the texts of the text events of a stream since its last replace_response,
\* after the text of that replace_response
SinceLastReplace(events) ==
    IF events = <<>> THEN <<>>
    ELSE LET e == events[Len(events)]
             front == SubSeq(events, 1, Len(events) - 1)
         IN  CASE e.event = "replace_response" -> <<e.data.text.v>>
               [] e.event = "text" -> Append(SinceLastReplace(front), e.data.text.v)
               [] OTHER -> SinceLastReplace(front)

\* the stream ended in done and performQueryRequest returned
EndedInDone == pc = "returned" /\ sawDone

C31_RetryLooksAtThisAttempt ==
    (pc = "raised" /\ raised = BotError("Error communicating with bot") /\ attemptYields = 0)
        => i = numTries - 1
\* ----------------------------------------------------------------- C32
\* the event of the last step had data that is not valid JSON, not a JSON
\* object or, where a text is required, without a string text (a meta event
\* is parsed only as the first event of the stream)
BadJson ==
    CASE step.ev.event \in {"text", "replace_response", "suggested_reply"} ->
           step.ev.data.syntax # "object" \/ step.ev.data.text.t # "string"
      [] step.ev.event \in {"json", "error"} -> step.ev.data.syntax # "object"
      [] step.ev.event = "meta" -> step.ev.data.syntax # "object" /\ eventCount = 1
      [] OTHER -> FALSE

\* every report POST of the last step was answered
ReportsAnswered == \A k \in 1..Len(step.reports) : step.reports[k].result = "ok"

\* C32: an event with such data makes performQueryRequest throw
\* BotErrorNoRetry, yields nothing, and the call ends with that exception:
\* no retry.  (A step whose report POST fails is let off here.)
C32_BadJsonIsFinal ==
    (step.op = "event" /\ BadJson /\ ReportsAnswered) =>
        /\ step.thrown.name = "BotErrorNoRetry"
        /\ step.yielded = <<>>
        /\ pc = "raised"
        /\ raised = step.thrown
\* ----------------------------------------------------------------- C33
\* C33: when handleQuery has yielded done, no upload task made for the
\* message is still pending: every one has been fulfilled or rejected.
C33_DoneAfterAllUploads ==
    qpc = "finished" => \A id \in 1..Len(uploads) : uploads[id].state # "pending"
\* ----------------------------------------------------------------- C36
\* C36: the table entry of the message holds no task whose promise has
\* settled: a fulfilled or rejected upload, the first of the message as well
\* as a later one, is not in pendingFileAttachmentTasks.
C36_TableHoldsInFlightOnly ==
    \A k \in 1..Len(pendingFileAttachmentTasks.tasks) :
        uploads[pendingFileAttachmentTasks.tasks[k]].state = "pending"
\* ----------------------------------------------------------------- C34
\* C34: the constructor accepts options.sep when it is \r\n, \r or \n, and
\* every chunk the response then writes is the record encoded with that
\* separator after each line; any other options.sep that is given ends the
\* constructor with InvalidParameterError.
C34_SepAcceptedAndUsed ==
    ctor # "new" =>
        /\ optionsSep \in Terminators =>
             /\ ctor # "InvalidParameterError"
             /\ \A k \in 1..Len(resWrite) :
                  resWrite[k].chunk =
                      encodeServerSentEvent(resWrite[k].sse, resWrite[k].comment, optionsSep)
        /\ (optionsSep \notin Terminators /\ optionsSep # NoField) =>
             ctor = "InvalidParameterError"
\* ----------------------------------------------------------------- C35
\* a key of lowercase letters, digits and underscores
IsSnake(key) == \A k \in 1..Len(key) : key[k] \in {"w", "1", "_"}

\* a key of letters and digits
IsCamel(key) == \A k \in 1..Len(key) : key[k] \in {"w", "W", "1"}

\* every underscore of the key is the last character or has a lowercase
\* letter after it
Plain(key) == \A k \in 1..Len(key) : (key[k] = "_" /\ k < Len(key)) => key[k + 1] = "w"

RECURSIVE Leaf(_)
\* the value at the bottom of an object
Leaf(obj) == IF obj.kind = "prim" THEN obj.val ELSE Leaf(obj.val)

C37_NoWriteAfterEnd ==
    [][ /\ ends > 0 => (written' = written /\ heartbeat' = heartbeat /\ ends' = ends)
        /\ \/ written' = written
           \/ \E record \in {DataRecord, DoneRecord, TimeoutRecord} :
                written' = Append(written, record) ]_vars

\* the response was closed for a termination signal after an event had been
\* written; after the close the body iterator yielded again and the
\* heartbeat timer came round
C37_Witness ==
    /\ ends = 1
    /\ closeEmitted
    /\ hrPc = "returned"
    /\ srPc = "resolved"
    /\ pingPc = "resolved"
    /\ emitted = 2
    /\ written = <<DataRecord, TimeoutRecord>>
\* ----------------------------------------------------------------- C38
\* C38: what the caller of streamRequestBase has received is never taken
\* back: every step leaves the messages received so far in place and adds
\* the messages it yields at the end, so that the messages of an earlier
\* attempt stand before those of a later one and every message the current
\* attempt has yielded is among them.
C38_NothingWithdrawn ==
    [][ /\ received' = received \o [j \in 1..Len(received') - Len(received) |-> i]
        /\ step'.op \in {"event", "end", "broken"} =>
             Len(received') = Len(received) + Len(step'.yielded)
        /\ \A j \in 1..Len(received') - 1 : received'[j] <= received'[j + 1]
        /\ pc' # "loop" =>
             Len(SelectSeq(received', LAMBDA a : a = i')) = attemptYields' ]_vars

\* the first attempt yielded a message and its stream broke, the call
\* retried, and the retry yielded two messages and ended with done
C38_Witness ==
    /\ pc = "returned"
    /\ sawDone
    /\ received = <<0, 1, 1>>
\* ----------------------------------------------------------------- C39
\* the caller has got status messages of executables and then the messages
\* of round 2, and nothing else
StatusesThenRound2 ==
    \E n \in 0..Len(upstream) :
        /\ \A k \in 1..n : upstream[k].type = "status"
        /\ SubSeq(upstream, n + 1, Len(upstream)) = r2yielded

\* C39: a streamRequest with tools and executables that ends without an
\* error has made the round-2 query, once and after round 1, whether or not
\* round 1 gave tool calls; nothing reaches the caller during round 1, and
\* what it has at any time is status messages of executables followed by
\* the messages of round 2.
C39_TwoRoundsAlways ==
    /\ tpc = "returned" => round2.made
    /\ tpc = "round1" => (upstream = <<>> /\ ~round2.made)
    /\ tpc = "exec" => (r2yielded = <<>> /\ ~round2.made)
    /\ StatusesThenRound2

\* round 1 yielded messages but no tool call; round 2 was made with empty
\* lists and its messages were forwarded
C39_Witness ==
    /\ tpc = "returned"
    /\ Len(arrived) > 1
    /\ toolCalls = <<>>
    /\ round2 = [made |-> TRUE, tool_calls |-> <<>>, tool_results |-> <<>>]
    /\ Len(r2yielded) = 2
    /\ upstream = r2yielded
\* ----------------------------------------------------------------- C40
\* the server side made the event with allowRetry false
NoRetrySource ==
    \/ source.kind \in {"handler exception", "drain exception", "send timeout"}
    \/ source.kind = "ErrorResponse" /\ source.allowRetry = "false"

\* C40: when the client has handled the error event, performQueryRequest has
\* thrown BotErrorNoRetry and the call has ended with it if the server side
\* made the event with allowRetry false (an ErrorResponse, an exception of
\* the handler or of the drain, the send-timeout trailer); for an
\* ErrorResponse with allowRetry true it has thrown BotError, after which
\* the call sleeps and retries unless this was its last attempt.
C40_RetryFlagAgreed ==
    step.op = "event" =>
        /\ NoRetrySource =>
             /\ step.thrown.name = "BotErrorNoRetry"
             /\ pc = "raised"
             /\ raised = step.thrown
        /\ (source.kind = "ErrorResponse" /\ source.allowRetry = "true") =>
             /\ step.thrown.name = "BotError"
             /\ pc = IF i < numTries - 1 THEN "sleep" ELSE "raised"

\* the handler's exception has reached the client as an error event with
\* allow_retry false and has ended the call at its first attempt
C40_Witness ==
    /\ source.kind = "handler exception"
    /\ Property(sseData, Key_allow_retry) = "false"
    /\ step.op = "event"
    /\ i = 0
    /\ raised.name = "BotErrorNoRetry"
====
